---- MODULE Spec2Model ----
(***************************************************************************)
(* KubeSight (src/kubesight/app.py): the projection and policy functions   *)
(* (status derivation, action eligibility, quantity parsing/formatting)    *)
(* and the context-resolution state kept in app.config.                    *)
(*                                                                         *)
(* Python strings are TLA+ strings; None (and a missing dict key read with *)
(* .get) is the value None below.                                          *)
(***************************************************************************)
EXTENDS Integers, Sequences, FiniteSets, TLC

None == "<None>"

\* Longest container_statuses list the inputs enumerate.
MaxContainers == 2

(***************************************************************************)
(* String helpers: str.startswith, str.endswith, s[:-n].                   *)
(***************************************************************************)
startswith(s, p) == Len(s) >= Len(p) /\ SubSeq(s, 1, Len(p)) = p

endswith(s, p) ==
    Len(s) >= Len(p) /\ SubSeq(s, Len(s) - Len(p) + 1, Len(s)) = p

\* s[:-n] for n >= 1 (Python clamps at the empty string).
DropLast(s, n) == IF Len(s) <= n THEN "" ELSE SubSeq(s, 1, Len(s) - n)

(***************************************************************************)
(* 4.4 Status derivation: get_pod_status.                                  *)
(* A pod is [name, namespace, phase, has_statuses, container_statuses]:    *)
(* container_statuses is the sequence of ready flags (one per container),  *)
(* and has_statuses is FALSE when the cluster reports None for it.         *)
(***************************************************************************)
\* all(cs.ready for cs in container_statuses)
all_ready(cs) == \A i \in 1..Len(cs) : cs[i]

\* A plausible slip: any() in place of all().
get_pod_status_any(pod) ==
    IF pod.phase = "Running"
         /\ pod.has_statuses /\ pod.container_statuses # <<>>
    THEN IF \E i \in 1..Len(pod.container_statuses) : pod.container_statuses[i]
         THEN "Running" ELSE "Starting"
    ELSE pod.phase

get_pod_status(pod) ==
    IF pod.phase = "Running"
         \* `if pod.status.container_statuses:` is false for None and for []
         /\ pod.has_statuses /\ pod.container_statuses # <<>>
    THEN IF all_ready(pod.container_statuses) THEN "Running" ELSE "Starting"
    ELSE pod.phase

(***************************************************************************)
(* 4.5 Action eligibility: get_available_actions.                          *)
(***************************************************************************)
RestartStatuses == {"Running", "Starting", "Pending"}

DeleteAllowList == {"default", "production", "staging", "development"}

RestartAction(namespace, pod_name) ==
    [label       |-> "RESTART",
     href        |-> "/api/pods/" \o namespace \o "/" \o pod_name \o "/restart",
     method      |-> "POST",
     style       |-> "warning",
     confirm     |-> "Are you sure you want to restart pod " \o pod_name \o "?",
     description |-> "Restart the pod by deleting it (will be recreated by controller)"]

DeleteAction(namespace, pod_name) ==
    [label       |-> "DELETE",
     href        |-> "/api/pods/" \o namespace \o "/" \o pod_name,
     method      |-> "DELETE",
     style       |-> "danger",
     confirm     |-> "Are you sure you want to delete pod " \o pod_name \o "?",
     description |-> "Permanently delete the pod"]

\* A plausible slip: delete offered only to pods that can also be restarted.
get_available_actions_status_gated(pod_data) ==
    IF pod_data.status \in RestartStatuses
    THEN <<RestartAction(pod_data.namespace, pod_data.name)>>
         \o (IF ~startswith(pod_data.namespace, "kube-")
                 \/ pod_data.namespace \in DeleteAllowList
             THEN <<DeleteAction(pod_data.namespace, pod_data.name)>>
             ELSE <<>>)
    ELSE <<>>

\* A plausible slip: Pending left out of the restartable statuses, and the
\* two appends swapped.
get_available_actions_swapped(pod_data) ==
    (IF ~startswith(pod_data.namespace, "kube-")
         \/ pod_data.namespace \in DeleteAllowList
     THEN <<DeleteAction(pod_data.namespace, pod_data.name)>>
     ELSE <<>>)
    \o (IF pod_data.status \in {"Running", "Starting"}
        THEN <<RestartAction(pod_data.namespace, pod_data.name)>>
        ELSE <<>>)

get_available_actions(pod_data) ==
    (IF pod_data.status \in RestartStatuses
     THEN <<RestartAction(pod_data.namespace, pod_data.name)>>
     ELSE <<>>)
    \o (IF ~startswith(pod_data.namespace, "kube-")
            \/ pod_data.namespace \in DeleteAllowList
        THEN <<DeleteAction(pod_data.namespace, pod_data.name)>>
        ELSE <<>>)

Labels(actions) == [i \in 1..Len(actions) |-> actions[i].label]

HasAction(actions, label) == \E i \in 1..Len(actions) : actions[i].label = label

(***************************************************************************)
(* Inputs of the projection: pod records as the cluster reports them.      *)
(***************************************************************************)
PodNames == {"web-0", "coredns"}

Namespaces ==
    {"default", "production", "staging", "development",
     "kube-system", "kube-public", "kube", "kubeflow", "monitoring"}

Phases == {"Pending", "Running", "Succeeded", "Failed", "Unknown", "Evicted"}

ReadyLists == UNION {[1..n -> BOOLEAN] : n \in 0..MaxContainers}

RawPods ==
    {p \in [name : PodNames, namespace : Namespaces, phase : Phases,
            has_statuses : BOOLEAN, container_statuses : ReadyLists] :
        ~p.has_statuses => p.container_statuses = <<>>}

(***************************************************************************)
(* 4.6 Context resolution.                                                 *)
(*                                                                         *)
(* The environment the process runs in, env:                               *)
(*   marker        the service-account token file exists                   *)
(*                 (is_running_in_cluster)                                 *)
(*   incluster_ok  config.load_incluster_config() would succeed            *)
(*   kubeconfig    the local credential set: exc is the exception that     *)
(*                 reading it raises (None: readable), contexts the names  *)
(*                 it lists, current its current-context (None: not set)   *)
(*   USE_MOCK_DATA the USE_MOCK_DATA environment variable is "true"        *)
(***************************************************************************)
ContextNames == {"dev", "prod"}

\* Names a caller may put in /contexts/<context_name>; "ghost" is in no kubeconfig.
RequestedNames == {"dev", "prod", "ghost"}

KubeConfigs ==
    {[exc |-> "ConfigException", text |-> "Invalid kube-config file. No configuration found.",
      contexts |-> {}, current |-> None],
     [exc |-> "Exception", text |-> "", contexts |-> {}, current |-> None],
     [exc |-> None, text |-> "", contexts |-> ContextNames, current |-> "dev"],
     [exc |-> None, text |-> "", contexts |-> ContextNames, current |-> None]}

Envs ==
    [marker : BOOLEAN, incluster_ok : BOOLEAN, kubeconfig : KubeConfigs,
     USE_MOCK_DATA : BOOLEAN]

\* config.load_kube_config(context=...): what the call raises (exc = None: it
\* returns) and the context it activates.
load_kube_config(kc, context) ==
    IF kc.exc # None
    THEN [exc |-> kc.exc, text |-> kc.text, active |-> None]
    ELSE IF context = None
    THEN IF kc.current = None
         THEN [exc |-> "ConfigException",
               text |-> "Invalid kube-config file. Expected key current-context",
               active |-> None]
         ELSE [exc |-> None, text |-> "", active |-> kc.current]
    ELSE IF context \notin kc.contexts
    THEN [exc |-> "ConfigException",
          text |-> "Invalid kube-config file. Expected object with name "
                       \o context \o " in contexts list",
          active |-> None]
    ELSE [exc |-> None, text |-> "", active |-> context]

\* config.load_incluster_config()
load_incluster_config(e) ==
    IF e.incluster_ok
    THEN [exc |-> None, text |-> ""]
    ELSE [exc |-> "ConfigException", text |-> "Service host/port is not set."]

\* The except clauses of load_k8s_config: (False, None, message).
LoadFailure(exc, text) ==
    [success |-> FALSE, context |-> None,
     message |-> IF exc = "ConfigException"
                 THEN "Kubernetes configuration error: " \o text
                 ELSE "Unexpected error loading Kubernetes config: " \o text]

\* A plausible slip: the in-cluster branch taken only when no context is asked for.
load_k8s_config_named_first(e, context_name) ==
    IF e.marker /\ context_name = None
    THEN LET r == load_incluster_config(e) IN
         IF r.exc # None THEN LoadFailure(r.exc, r.text)
         ELSE [success |-> TRUE, context |-> "in-cluster",
               message |-> "Using in-cluster service account configuration"]
    ELSE LET r == load_kube_config(e.kubeconfig, context_name) IN
         IF r.exc # None THEN LoadFailure(r.exc, r.text)
         ELSE IF context_name # None
         THEN [success |-> TRUE, context |-> context_name,
               message |-> "Using Kubernetes context: " \o context_name]
         ELSE [success |-> TRUE,
               context |-> IF r.active # None THEN r.active ELSE "default",
               message |-> "Using default Kubernetes context"]

\* load_k8s_config(context_name): (success, context, message).
load_k8s_config(e, context_name) ==
    IF e.marker
    THEN LET r == load_incluster_config(e) IN
         IF r.exc # None THEN LoadFailure(r.exc, r.text)
         ELSE [success |-> TRUE, context |-> "in-cluster",
               message |-> "Using in-cluster service account configuration"]
    ELSE LET r == load_kube_config(e.kubeconfig, context_name) IN
         IF r.exc # None THEN LoadFailure(r.exc, r.text)
         ELSE IF context_name # None
         THEN [success |-> TRUE, context |-> context_name,
               message |-> "Using Kubernetes context: " \o context_name]
         ELSE [success |-> TRUE,
               context |-> IF r.active # None THEN r.active ELSE "default",
               message |-> "Using default Kubernetes context"]

\* get_available_contexts(): (context names, active context name), and
\* ([], None) on any exception.
get_available_contexts(e) ==
    IF e.kubeconfig.exc # None \/ e.kubeconfig.current = None
    THEN [contexts |-> {}, active |-> None]
    ELSE [contexts |-> e.kubeconfig.contexts, active |-> e.kubeconfig.current]

Clients == {"alice", "bob"}

NoResult == [success |-> FALSE, context |-> None, message |-> ""]

\* A client with no request in flight.
IdleReq == [op |-> "none", pc |-> "idle", context_name |-> None,
            res |-> NoResult, k8s_context |-> None]

\* A response: the template or redirect, the status code, and what the
\* template is given (pods: the pod view models; source: where they came from).
\* No answer of the metrics API, and a container without resources.
NoMetrics == [raises |-> TRUE, cpu |-> None, memory |-> None]

NoResources ==
    [cpu_limit |-> None, cpu_request |-> None,
     memory_limit |-> None, memory_request |-> None]

\* has_metrics: the handler has asked for the pod's metrics; metrics and
\* resources are then what the cluster answered for the container. source
\* is "live" when the handler has called the cluster client and "mock" when
\* it has answered from the fixtures; deleted names the pod a
\* delete_namespaced_pod call has removed from the cluster, deleted_from its
\* namespace and deleted_status the status the pod had.
NoResponse == [client |-> None, kind |-> "none", code |-> 200,
               k8s_context |-> None, k8s_message |-> None, error |-> None,
               source |-> "none", pods |-> <<>>,
               cpu_usage |-> "", memory_usage |-> "",
               has_metrics |-> FALSE, metrics |-> NoMetrics,
               resources |-> NoResources,
               namespaces |-> <<>>, logs |-> "", flash |-> None,
               deleted |-> None, deleted_from |-> None,
               deleted_status |-> None]

Response(c, kind) == [NoResponse EXCEPT !.client = c, !.kind = kind]

VARIABLES
    env,        \* the process environment (see above)
    app,        \* app.config once create_app has run: [up, USE_MOCK_DATA,
                \*   RUNNING_IN_CLUSTER, K8S_CONTEXT, K8S_MESSAGE]
    k8s_client, \* the configuration the kubernetes client library holds
    session,    \* session['selected_context'] of each client (None: not set)
    req,        \* the request each client has in flight
    last,       \* the response sent last
    pol,        \* the projection of one pod record: [stage, pod, status, actions],
                \*   and the offered action or link that was followed: [rel,
                \*   request, reached]
    quant,      \* the quantity call: [kind, used, base, fn, out, back]
    age         \* the format_age call: [now, created_time, fn, label]

vars == <<env, app, k8s_client, session, req, last, pol, quant, age>>

appvars == <<env, app, k8s_client, session, req, last>>

NoProjection ==
    [stage |-> "none",
     pod |-> [name |-> "", namespace |-> "", phase |-> "", has_statuses |-> FALSE,
              container_statuses |-> <<>>],
     status |-> None, actions |-> <<>>,
     rel |-> None, request |-> [href |-> "", method |-> ""],
     reached |-> [error |-> 0, endpoint |-> None]]

\* No quantity call.
NoOutcome == [exc |-> None, text |-> "", bytes |-> << >>,
              millicores |-> [mant |-> 0, exp |-> 0]]

NoQuantity ==
    [kind |-> "none", used |-> None, base |-> None, fn |-> "none",
     out |-> NoOutcome,
     back |-> NoOutcome]

\* A datetime: the fields of its wall clock as seconds and microseconds,
\* and its tzinfo (aware, utcoffset in seconds); present FALSE is None.
NoTime == [present |-> FALSE, secs |-> 0, us |-> 0, aware |-> FALSE,
           utcoffset |-> 0]

\* No format_age call.
NoAge == [now |-> [secs |-> 0, us |-> 0], created_time |-> NoTime,
          fn |-> "none", label |-> ""]

\* A workstation with a readable kubeconfig: the environment of the
\* specifications that exercise the pure functions only.
LocalEnv ==
    [marker |-> FALSE, incluster_ok |-> FALSE, USE_MOCK_DATA |-> FALSE,
     kubeconfig |-> [exc |-> None, text |-> "", contexts |-> ContextNames,
                     current |-> "dev"]]

\* The process before create_app has run.
AppDown ==
    /\ app = [up |-> FALSE, USE_MOCK_DATA |-> FALSE, RUNNING_IN_CLUSTER |-> FALSE,
              K8S_CONTEXT |-> None, K8S_MESSAGE |-> None]
    /\ k8s_client = None
    /\ session = [c \in Clients |-> None]
    /\ req = [c \in Clients |-> IdleReq]
    /\ last = NoResponse

(***************************************************************************)
(* The routes the application registers, and how a request reaches one.    *)
(***************************************************************************)
\* The methods of a route registered without a methods argument.
DefaultMethods == {"GET", "HEAD", "OPTIONS"}

\* The @app.route rules of app.py and their view functions.
Routes ==
    {[rule |-> "/api", endpoint |-> "api_root"],
     [rule |-> "/", endpoint |-> "index"],
     [rule |-> "/contexts", endpoint |-> "select_context"],
     [rule |-> "/api/contexts", endpoint |-> "api_contexts"],
     [rule |-> "/contexts/<context_name>", endpoint |-> "use_context"],
     [rule |-> "/api/namespaces", endpoint |-> "get_namespaces"],
     [rule |-> "/api/pods", endpoint |-> "get_pods"],
     [rule |-> "/pods/<namespace>/<pod_name>", endpoint |-> "pod_details_page"],
     [rule |-> "/pods/<namespace>/<pod_name>/logs/<container>",
      endpoint |-> "pod_logs_page"],
     [rule |-> "/api/pods/<namespace>/<pod_name>/logs",
      endpoint |-> "pod_logs_api"],
     [rule |-> "/pods/<namespace>/<pod_name>/delete", endpoint |-> "delete_pod"],
     [rule |-> "/pods/<namespace>/<pod_name>/restart",
      endpoint |-> "restart_pod"],
     [rule |-> "/api/pods/<namespace>/<pod_name>/metrics",
      endpoint |-> "get_pod_metrics_endpoint"]}

\* The parts of a path between its slashes: "/pods/a/b" is <<"pods", "a", "b">>.
Segments(path) ==
    LET slashes == {i \in 1..Len(path) : SubSeq(path, i, i) = "/"}
        n       == Cardinality(slashes)
        Pos(k)  == CHOOSE i \in slashes :
                      Cardinality({j \in slashes : j <= i}) = k
        End(k)  == IF k = n THEN Len(path) ELSE Pos(k + 1) - 1
    IN  [k \in 1..n |-> SubSeq(path, Pos(k) + 1, End(k))]

\* A rule matches a path when they have as many segments and each segment
\* of the rule is the path's, or is a <variable>, which stands for any
\* non-empty segment.
RuleMatches(rule, path) ==
    LET r == Segments(rule)
        p == Segments(path)
    IN  /\ Len(r) = Len(p)
        /\ \A k \in 1..Len(r) :
              IF Len(r[k]) > 0 /\ SubSeq(r[k], 1, 1) = "<"
              THEN p[k] # ""
              ELSE r[k] = p[k]

\* What the application does with a request: 404 when no rule matches the
\* path, 405 when the rules that match do not take the method, and
\* otherwise the view function called (error 0).
dispatch_request(href, method) ==
    LET matching == {r \in Routes : RuleMatches(r.rule, href)}
    IN  IF matching = {} THEN [error |-> 404, endpoint |-> None]
        ELSE IF method \notin DefaultMethods
        THEN [error |-> 405, endpoint |-> None]
        ELSE [error |-> 0,
              endpoint |-> (CHOOSE r \in matching : TRUE).endpoint]

\* get_pods, lines 596-601: the _links of a listed pod.
PodLinks(pod_ns, pod_name) ==
    [self    |-> [href |-> "/pods/" \o pod_ns \o "/" \o pod_name,
                  method |-> "GET"],
     logs    |-> [href |-> "/pods/" \o pod_ns \o "/" \o pod_name \o "/logs",
                  method |-> "GET"],
     delete  |-> [href |-> "/pods/" \o pod_ns \o "/" \o pod_name \o "/delete",
                  method |-> "POST"],
     restart |-> [href |-> "/pods/" \o pod_ns \o "/" \o pod_name \o "/restart",
                  method |-> "POST"]]

(***************************************************************************)
(* SpecPolicy: one pod record threaded through get_pod_status and then     *)
(* get_available_actions, as get_pods and pod_details_page do.             *)
(***************************************************************************)
PolicyInit ==
    /\ AppDown
    /\ env = LocalEnv
    /\ \E p \in RawPods :
        pol = [NoProjection EXCEPT !.stage = "raw", !.pod = p]
    /\ quant = NoQuantity
    /\ age = NoAge

DeriveStatus ==
    /\ pol.stage = "raw"
    /\ pol' = [pol EXCEPT !.stage = "derived", !.status = get_pod_status(pol.pod)]
    /\ UNCHANGED <<appvars, quant, age>>

AttachActions ==
    /\ pol.stage = "derived"
    /\ pol' = [pol EXCEPT
                 !.stage = "policed",
                 !.actions = get_available_actions(
                     [name |-> pol.pod.name, namespace |-> pol.pod.namespace,
                      status |-> pol.status])]
    /\ UNCHANGED <<appvars, quant, age>>

\* A client follows one of the action descriptors attached to the pod.
FollowAction ==
    /\ pol.stage = "policed"
    /\ \E i \in 1..Len(pol.actions) :
         pol' = [pol EXCEPT
                   !.stage = "followed",
                   !.rel = pol.actions[i].label,
                   !.request = [href |-> pol.actions[i].href,
                                method |-> pol.actions[i].method],
                   !.reached = dispatch_request(pol.actions[i].href,
                                                pol.actions[i].method)]
    /\ UNCHANGED <<appvars, quant, age>>

\* A client follows the delete or the restart entry of the pod's _links.
FollowLink ==
    /\ pol.stage = "policed"
    /\ \E rel \in {"delete", "restart"} :
         LET link == PodLinks(pol.pod.namespace, pol.pod.name)[rel]
         IN  pol' = [pol EXCEPT
                       !.stage = "followed",
                       !.rel = rel,
                       !.request = link,
                       !.reached = dispatch_request(link.href, link.method)]
    /\ UNCHANGED <<appvars, quant, age>>

PolicyNext == DeriveStatus \/ AttachActions \/ FollowAction \/ FollowLink

SpecPolicy == PolicyInit /\ [][PolicyNext]_vars

(***************************************************************************)
(* Spec: the application. create_app runs once; afterwards the clients'    *)
(* requests are served concurrently (one in flight per client), so a       *)
(* handler that reads or writes app.config more than once is one step per  *)
(* access, at the line of the access.                                      *)
(***************************************************************************)
Init ==
    /\ AppDown
    /\ env \in Envs
    /\ pol = NoProjection
    /\ quant = NoQuantity
    /\ age = NoAge

\* A plausible slip: a failed load leaves USE_MOCK_DATA as the environment set it.
create_app_no_fallback ==
    /\ ~app.up
    /\ LET r == load_k8s_config(env, None) IN
       IF env.USE_MOCK_DATA
       THEN /\ app' = [app EXCEPT !.up = TRUE, !.USE_MOCK_DATA = TRUE,
                                  !.RUNNING_IN_CLUSTER = env.marker]
            /\ UNCHANGED k8s_client
       ELSE IF r.success
       THEN /\ app' = [app EXCEPT !.up = TRUE, !.RUNNING_IN_CLUSTER = env.marker,
                                  !.K8S_CONTEXT = r.context,
                                  !.K8S_MESSAGE = r.message]
            /\ k8s_client' = r.context
       ELSE /\ app' = [app EXCEPT !.up = TRUE, !.RUNNING_IN_CLUSTER = env.marker,
                                  !.K8S_MESSAGE = "Using mock data: " \o r.message]
            /\ UNCHANGED k8s_client
    /\ UNCHANGED <<env, session, req, last, pol, quant, age>>

\* create_app(), lines 56-75.
create_app ==
    /\ ~app.up
    /\ LET r == load_k8s_config(env, None) IN
       IF env.USE_MOCK_DATA
       THEN \* line 64: the load is skipped; K8S_CONTEXT and K8S_MESSAGE stay unset
            /\ app' = [app EXCEPT !.up = TRUE, !.USE_MOCK_DATA = TRUE,
                                  !.RUNNING_IN_CLUSTER = env.marker]
            /\ UNCHANGED k8s_client
       ELSE IF r.success
       THEN /\ app' = [app EXCEPT !.up = TRUE, !.RUNNING_IN_CLUSTER = env.marker,
                                  !.K8S_CONTEXT = r.context,
                                  !.K8S_MESSAGE = r.message]
            /\ k8s_client' = r.context
       ELSE /\ app' = [app EXCEPT !.up = TRUE, !.RUNNING_IN_CLUSTER = env.marker,
                                  !.USE_MOCK_DATA = TRUE,
                                  !.K8S_MESSAGE = "Using mock data: " \o r.message]
            /\ UNCHANGED k8s_client
    /\ UNCHANGED <<env, session, req, last, pol, quant, age>>

\* The service-account token file appears under the running process (a
\* projected volume is mounted, a development tool creates it).
TokenFileAppears ==
    /\ app.up
    /\ ~env.marker
    /\ env' = [env EXCEPT !.marker = TRUE]
    /\ UNCHANGED <<app, k8s_client, session, req, last, pol, quant, age>>

Idle(c) == app.up /\ req[c].pc = "idle"

\* index(), lines 359-362: the context-selection check.
index_begin(c) ==
    /\ Idle(c)
    /\ IF ~app.RUNNING_IN_CLUSTER /\ ~app.USE_MOCK_DATA /\ session[c] = None
       THEN /\ last' = Response(c, "redirect:select_context")
            /\ UNCHANGED req
       ELSE /\ req' = [req EXCEPT ![c] = [IdleReq EXCEPT !.op = "index", !.pc = "387"]]
            /\ UNCHANGED last
    /\ UNCHANGED <<env, app, k8s_client, session, pol, quant, age>>

\* index(), line 387: app.config.get('K8S_CONTEXT').
index_387(c) ==
    /\ req[c].op = "index" /\ req[c].pc = "387"
    /\ req' = [req EXCEPT ![c].pc = "388", ![c].k8s_context = app.K8S_CONTEXT]
    /\ UNCHANGED <<env, app, k8s_client, session, last, pol, quant, age>>

\* index(), lines 388-392: app.config.get('K8S_MESSAGE'), then the page.
index_388(c) ==
    /\ req[c].op = "index" /\ req[c].pc = "388"
    /\ last' = [Response(c, "index.html") EXCEPT
                  !.k8s_context = req[c].k8s_context,
                  !.k8s_message = app.K8S_MESSAGE]
    /\ req' = [req EXCEPT ![c] = IdleReq]
    /\ UNCHANGED <<env, app, k8s_client, session, pol, quant, age>>

\* select_context(), lines 396-454.
select_context(c) ==
    /\ Idle(c)
    /\ last' = IF app.RUNNING_IN_CLUSTER
               THEN Response(c, "redirect:index")
               ELSE IF get_available_contexts(env).contexts = {}
               THEN Response(c, "error.html")
               ELSE Response(c, "context_selector.html")
    /\ UNCHANGED <<env, app, k8s_client, session, req, pol, quant, age>>

\* use_context(context_name), lines 490-491: the in-cluster guard.
use_context_begin(c, context_name) ==
    /\ Idle(c)
    /\ IF app.RUNNING_IN_CLUSTER
       THEN /\ last' = Response(c, "redirect:index")
            /\ UNCHANGED req
       ELSE /\ req' = [req EXCEPT ![c] = [IdleReq EXCEPT
                          !.op = "use_context", !.pc = "493",
                          !.context_name = context_name]]
            /\ UNCHANGED last
    /\ UNCHANGED <<env, app, k8s_client, session, pol, quant, age>>

\* A plausible slip: the failure branch stores its message like the success
\* branch does.
use_context_493_stores_failure(c) ==
    /\ req[c].op = "use_context" /\ req[c].pc = "493"
    /\ LET r == load_k8s_config(env, req[c].context_name) IN
       IF r.success
       THEN /\ req' = [req EXCEPT ![c].pc = "496", ![c].res = r]
            /\ k8s_client' = r.context
            /\ UNCHANGED <<last, app>>
       ELSE /\ req' = [req EXCEPT ![c] = IdleReq]
            /\ last' = [Response(c, "context_selector.html") EXCEPT
                          !.error = "Failed to switch context: " \o r.message]
            /\ app' = [app EXCEPT !.K8S_MESSAGE = r.message]
            /\ UNCHANGED k8s_client
    /\ UNCHANGED <<env, session, pol, quant, age>>

\* use_context, line 493: load_k8s_config(context_name); on failure lines
\* 501-505, the selector page with the error.
use_context_493(c) ==
    /\ req[c].op = "use_context" /\ req[c].pc = "493"
    /\ LET r == load_k8s_config(env, req[c].context_name) IN
       IF r.success
       THEN /\ req' = [req EXCEPT ![c].pc = "496", ![c].res = r]
            /\ k8s_client' = r.context
            /\ UNCHANGED last
       ELSE /\ req' = [req EXCEPT ![c] = IdleReq]
            /\ last' = [Response(c, "context_selector.html") EXCEPT
                          !.error = "Failed to switch context: " \o r.message]
            /\ UNCHANGED k8s_client
    /\ UNCHANGED <<env, app, session, pol, quant, age>>

\* use_context, line 496: app.config['K8S_CONTEXT'] = context.
use_context_496(c) ==
    /\ req[c].op = "use_context" /\ req[c].pc = "496"
    /\ app' = [app EXCEPT !.K8S_CONTEXT = req[c].res.context]
    /\ req' = [req EXCEPT ![c].pc = "497"]
    /\ UNCHANGED <<env, k8s_client, session, last, pol, quant, age>>

\* use_context, lines 497-499: app.config['K8S_MESSAGE'] = message, then the
\* redirect, whose response carries the session written at line 495.
use_context_497(c) ==
    /\ req[c].op = "use_context" /\ req[c].pc = "497"
    /\ app' = [app EXCEPT !.K8S_MESSAGE = req[c].res.message]
    /\ session' = [session EXCEPT ![c] = req[c].context_name]
    /\ last' = Response(c, "redirect:index")
    /\ req' = [req EXCEPT ![c] = IdleReq]
    /\ UNCHANGED <<env, k8s_client, pol, quant, age>>

Next ==
    \/ create_app
    \/ TokenFileAppears
    \/ \E c \in Clients :
        \/ index_begin(c)
        \/ index_387(c)
        \/ index_388(c)
        \/ select_context(c)
        \/ \E n \in RequestedNames : use_context_begin(c, n)
        \/ use_context_493(c)
        \/ use_context_496(c)
        \/ use_context_497(c)

Spec == Init /\ [][Next]_vars

(***************************************************************************)
(* 4.2 Quantity normalizer.                                                *)
(*                                                                         *)
(* A quantity is a Python str, here a TLA+ string; ch(s, i) is s[i-1].     *)
(* float(s) and int(s) are modelled by their grammar over the characters   *)
(* that the quantity strings below are made of: float accepts digits with  *)
(* at most one '.', and at least one digit; int accepts digits only.       *)
(* Anything else is ValueError.                                            *)
(*                                                                         *)
(* The({e : x \in {v}}) is e with x standing for the value of v, which is *)
(* evaluated once: an intermediate result that is used several times is    *)
(* bound this way, as a Python local holds the value assigned to it.       *)
(***************************************************************************)
The(S) == CHOOSE x \in S : TRUE

ch(s, i) == SubSeq(s, i, i)

Digits == {"0", "1", "2", "3", "4", "5", "6", "7", "8", "9"}

DigitVal(c) ==
    CASE c = "0" -> 0 [] c = "1" -> 1 [] c = "2" -> 2 [] c = "3" -> 3
      [] c = "4" -> 4 [] c = "5" -> 5 [] c = "6" -> 6 [] c = "7" -> 7
      [] c = "8" -> 8 [] c = "9" -> 9

DigitChar(d) ==
    CASE d = 0 -> "0" [] d = 1 -> "1" [] d = 2 -> "2" [] d = 3 -> "3"
      [] d = 4 -> "4" [] d = 5 -> "5" [] d = 6 -> "6" [] d = 7 -> "7"
      [] d = 8 -> "8" [] d = 9 -> "9"

AllDigits(s) == \A i \in 1..Len(s) : ch(s, i) \in Digits

\* The position of the first '.' of s, 0 when there is none.
DotAt(s) ==
    IF \E i \in 1..Len(s) : ch(s, i) = "."
    THEN CHOOSE i \in 1..Len(s) :
            ch(s, i) = "." /\ \A j \in 1..(i - 1) : ch(s, j) # "."
    ELSE 0

\* What precedes and what follows the '.' at position dot (0: no '.').
IntPart(s, dot) == IF dot = 0 THEN s ELSE SubSeq(s, 1, dot - 1)

FracPart(s, dot) == IF dot = 0 THEN "" ELSE SubSeq(s, dot + 1, Len(s))

RECURSIVE Pow10(_)
Pow10(k) == IF k = 0 THEN 1 ELSE 10 * Pow10(k - 1)

\* str(n) of a natural number.
RECURSIVE ToStr(_)
ToStr(n) ==
    IF n < 10 THEN DigitChar(n) ELSE ToStr(n \div 10) \o DigitChar(n % 10)

\* The number the first n characters of a string of digits denote.
RECURSIVE NatUpTo(_, _)
NatUpTo(s, n) ==
    IF n = 0 THEN 0 ELSE NatUpTo(s, n - 1) * 10 + DigitVal(ch(s, n))

\* The number a string of digits denotes ("" denotes 0).
NatOf(s) == The({NatUpTo(v, Len(v)) : v \in {s}})

(***************************************************************************)
(* Python's int is unbounded and a byte count passes 2^31, so a byte count *)
(* is a sequence of limbs in base 1024, least significant first, without   *)
(* leading (trailing in the sequence) zero limbs: 0 is << >>, 1024^k is k  *)
(* zero limbs followed by 1.                                               *)
(***************************************************************************)
Base == 1024

\* The index of the most significant limb that is not 0 (0: there is none).
TopLimb(l) ==
    IF \A i \in 1..Len(l) : l[i] = 0 THEN 0
    ELSE CHOOSE i \in 1..Len(l) :
            l[i] # 0 /\ \A j \in (i + 1)..Len(l) : l[j] = 0

Trim(l) == The({SubSeq(v, 1, TopLimb(v)) : v \in {l}})

RECURSIVE ToLimbs(_)
ToLimbs(n) == IF n = 0 THEN << >> ELSE <<n % Base>> \o ToLimbs(n \div Base)

\* The limbs from the i-th on of l * k + carry * 1024^(i-1).
RECURSIVE MulAddFrom(_, _, _, _)
MulAddFrom(l, i, k, carry) ==
    IF i > Len(l) THEN ToLimbs(carry)
    ELSE The({<<c % Base>> \o MulAddFrom(l, i + 1, k, c \div Base) :
                c \in {l[i] * k + carry}})

\* l * k + carry, for small k and carry.
MulAdd(l, k, carry) ==
    The({Trim(MulAddFrom(v, 1, k, c)) : v \in {l}, c \in {carry}})

MulSmall(l, k) == MulAdd(l, k, 0)

\* l * 1024^k.
Shift(l, k) ==
    The({IF v = << >> THEN << >> ELSE [i \in 1..k |-> 0] \o v : v \in {l}})

\* Long division by a small d of the i low limbs of l, under the remainder
\* rem of the limbs above them: [quot, rem].
RECURSIVE DivRemFrom(_, _, _, _)
DivRemFrom(l, i, d, rem) ==
    IF i = 0 THEN [quot |-> << >>, rem |-> rem]
    ELSE The({The({[quot |-> low.quot \o <<cur \div d>>, rem |-> low.rem] :
                        low \in {DivRemFrom(l, i - 1, d, cur % d)}}) :
                cur \in {rem * Base + l[i]}})

DivRem(l, d) == The({DivRemFrom(v, Len(v), d, 0) : v \in {l}})

DivSmall(l, d) == Trim(DivRem(l, d).quot)

ModSmall(l, d) == DivRem(l, d).rem

\* The limbs of the number the first n characters of a string of digits
\* denote.
RECURSIVE DigitsUpTo(_, _)
DigitsUpTo(s, n) ==
    IF n = 0 THEN << >>
    ELSE MulAdd(DigitsUpTo(s, n - 1), 10, DigitVal(ch(s, n)))

DigitsToLimbs(s) == The({DigitsUpTo(v, Len(v)) : v \in {s}})

\* -1, 0, 1 as a < b, a = b, a > b.
CmpLimbs(a, b) ==
    The({IF Len(x) # Len(y) THEN (IF Len(x) < Len(y) THEN -1 ELSE 1)
         ELSE IF x = y THEN 0
         ELSE LET top == CHOOSE i \in 1..Len(x) :
                            /\ x[i] # y[i]
                            /\ \A j \in (i + 1)..Len(x) : x[j] = y[j]
              IN  IF x[top] < y[top] THEN -1 ELSE 1 :
            x \in {a}, y \in {b}})

\* The limbs from the i-th on of a - b, for a >= b, with a borrow.
RECURSIVE SubFrom(_, _, _, _)
SubFrom(a, b, i, borrow) ==
    IF i > Len(a) THEN << >>
    ELSE The({<<(d + Base) % Base>>
              \o SubFrom(a, b, i + 1, IF d < 0 THEN 1 ELSE 0) :
                d \in {a[i] - (IF i <= Len(b) THEN b[i] ELSE 0) - borrow}})

SubLimbs(a, b) == The({Trim(SubFrom(x, y, 1, 0)) : x \in {a}, y \in {b}})

\* The largest k in lo..hi with d * k <= cur, by bisection.
RECURSIVE QuotDigit(_, _, _, _)
QuotDigit(d, cur, lo, hi) ==
    IF lo = hi THEN lo
    ELSE The({IF CmpLimbs(MulSmall(d, mid), cur) <= 0
              THEN QuotDigit(d, cur, mid, hi)
              ELSE QuotDigit(d, cur, lo, mid - 1) :
                mid \in {(lo + hi + 1) \div 2}})

\* Long division by d # 0 of the i low limbs of n, under the remainder rem
\* of the limbs above them: [quot, rem].
RECURSIVE DivLimbsFrom(_, _, _, _)
DivLimbsFrom(n, i, d, rem) ==
    IF i = 0 THEN [quot |-> << >>, rem |-> rem]
    ELSE The({The({The({[quot |-> low.quot \o <<digit>>, rem |-> low.rem] :
                low \in {DivLimbsFrom(n, i - 1, d,
                                      SubLimbs(cur, MulSmall(d, digit)))}}) :
                digit \in {QuotDigit(d, cur, 0, Base - 1)}}) :
                cur \in {Trim(<<n[i]>> \o rem)}})

DivLimbs(n, d) ==
    The({The({[quot |-> Trim(r.quot), rem |-> r.rem] :
                r \in {DivLimbsFrom(x, Len(x), y, << >>)}}) :
            x \in {n}, y \in {d}})

\* str(n) of a byte count.
RECURSIVE BigToStr(_)
BigToStr(l) ==
    The({IF Len(v) = 0 THEN "0"
         ELSE IF Len(v) = 1 /\ v[1] < 10 THEN DigitChar(v[1])
         ELSE The({BigToStr(Trim(qr.quot)) \o DigitChar(qr.rem) :
                     qr \in {DivRem(v, 10)}}) :
            v \in {l}})

(***************************************************************************)
(* A CPU value is a Python float. The values the functions below produce   *)
(* are decimal fractions mant * 10^exp, kept exactly and in lowest form    *)
(* (mant not a multiple of 10; zero is [0, 0]), so that equal values are   *)
(* equal records. The binary rounding of a double is below what one        *)
(* decimal place shows, except at a decimal tie: see format_1f.            *)
(***************************************************************************)
RECURSIVE Dec(_, _)
Dec(mant, exp) ==
    The({IF m = 0 THEN [mant |-> 0, exp |-> 0]
         ELSE IF m % 10 = 0 THEN Dec(m \div 10, exp + 1)
         ELSE [mant |-> m, exp |-> exp] :
            m \in {mant}})

\* Round half to even, as the 'f' presentation does with the exact value
\* of the double: q + 1 when the remainder r of a division by d is above
\* d/2, or equal to d/2 with q odd.
HalfEven(q, r, d) ==
    IF 2 * r > d \/ (2 * r = d /\ q % 2 = 1) THEN q + 1 ELSE q

\* The number of tenths nearest to a decimal fraction x.
Tenths(x) ==
    IF x.exp >= -1 THEN x.mant * Pow10(x.exp + 1)
    ELSE The({HalfEven(x.mant \div d, x.mant % d, d) :
                d \in {Pow10(-x.exp - 1)}})

\* f"{x:.1f}" of a decimal fraction x. A tie (second decimal 5 and nothing
\* after it) is exact for the double only when x is a multiple of 1/4.
format_1f(x) ==
    The({ToStr(tenths \div 10) \o "." \o DigitChar(tenths % 10) :
            tenths \in {The({Tenths(v) : v \in {x}})}})

\* A plausible slip: the percentage capped at 100.
format_0f_ratio_clamped(n, d) ==
    The({The({IF HalfEven(num \div den, num % den, den) > 100 THEN "100"
              ELSE ToStr(HalfEven(num \div den, num % den, den)) :
                num \in {n.mant * (IF s > 0 THEN Pow10(s) ELSE 1)},
                den \in {d.mant * (IF s < 0 THEN Pow10(-s) ELSE 1)}}) :
            s \in {n.exp - d.exp + 2}})

\* f"{(n / d) * 100:.0f}" of two decimal fractions, d # 0.
format_0f_ratio(n, d) ==
    The({The({ToStr(HalfEven(num \div den, num % den, den)) :
                num \in {n.mant * (IF s > 0 THEN Pow10(s) ELSE 1)},
                den \in {d.mant * (IF s < 0 THEN Pow10(-s) ELSE 1)}}) :
            s \in {n.exp - d.exp + 2}})

\* f"{b / 1024**k:.1f}" of a byte count b < 1024^(k+1) (k = 3: any b):
\* the k low limbs are the fraction, the rest the integer part. prod is
\* ten times the fraction: its limb k+1 is the first decimal, and its k low
\* limbs, against 512 * 1024^(k-1), say which way the rest rounds.
format_1f_binary(b, k) ==
    The({The({LET whole == SubSeq(v, k + 1, Len(v))
                  digit == IF Len(prod) > k THEN prod[k + 1] ELSE 0
                  low0  == \A j \in 1..(k - 1) : prod[j] = 0
                  above == prod[k] > 512 \/ (prod[k] = 512 /\ ~low0)
                  tie   == prod[k] = 512 /\ low0
                  up    == IF above \/ (tie /\ digit % 2 = 1) THEN 1 ELSE 0
              IN  The({BigToStr(Trim(qr.quot)) \o "." \o DigitChar(qr.rem) :
                         qr \in {DivRem(MulAdd(whole, 10, digit + up), 10)}}) :
                prod \in {MulAddFrom(SubSeq(v, 1, k), 1, 10, 0)}}) :
            v \in {b}})

\* f"{(u / r) * 100:.0f}" of two byte counts, r # 0.
format_0f_bytes(u, r) ==
    The({The({LET odd == qr.quot # << >> /\ qr.quot[1] % 2 = 1
              IN  BigToStr(IF c > 0 \/ (c = 0 /\ odd)
                           THEN MulAdd(qr.quot, 1, 1) ELSE qr.quot) :
                c \in {CmpLimbs(MulSmall(qr.rem, 2), r)}}) :
            qr \in {DivLimbs(MulSmall(u, 100), r)}})

(***************************************************************************)
(* The outcome of a call is [exc, ...]: exc is None when the call returns  *)
(* and the name of the exception when it raises.                           *)
(***************************************************************************)
ValueError == "ValueError"

\* `not s` of an optional string.
Falsy(s) == s = None \/ s = ""

\* str.strip, over blanks.
strip(s) ==
    The({LET solid == {i \in 1..Len(v) : ch(v, i) # " "}
         IN  IF solid = {} THEN ""
             ELSE SubSeq(v, CHOOSE i \in solid : \A j \in solid : i <= j,
                            CHOOSE i \in solid : \A j \in solid : i >= j) :
            v \in {s}})

\* float(s): the digits without the point, and how many follow the point.
float(s) ==
    The({The({IF /\ AllDigits(IntPart(t, dot))
                 /\ AllDigits(FracPart(t, dot))
                 /\ Len(IntPart(t, dot)) + Len(FracPart(t, dot)) > 0
              THEN [exc |-> None,
                    digits |-> IntPart(t, dot) \o FracPart(t, dot),
                    scale |-> Len(FracPart(t, dot))]
              ELSE [exc |-> ValueError, digits |-> "", scale |-> 0] :
                dot \in {DotAt(t)}}) :
            t \in {strip(s)}})

\* int(s) of a string.
int(s) ==
    The({IF t # "" /\ AllDigits(t)
         THEN [exc |-> None, value |-> NatOf(t)]
         ELSE [exc |-> ValueError, value |-> 0] :
            t \in {strip(s)}})

\* The power of 1024 a memory suffix stands for (0: no suffix, bytes).
MemoryPower(s) ==
    CASE endswith(s, "Ki") -> 1
      [] endswith(s, "Mi") -> 2
      [] endswith(s, "Gi") -> 3
      [] endswith(s, "Ti") -> 4
      [] OTHER -> 0

\* int(float(number) * 1024**k), number the float() of the text before the
\* suffix.
BytesOf(number, k) ==
    IF number.exc # None THEN [exc |-> number.exc, bytes |-> << >>]
    ELSE [exc |-> None,
          bytes |-> DivSmall(Shift(DigitsToLimbs(number.digits), k),
                             Pow10(number.scale))]

parse_memory_to_bytes(memory_str) ==
    IF Falsy(memory_str) THEN [exc |-> None, bytes |-> << >>]
    ELSE The({The({BytesOf(number, k) :
                     number \in {float(IF k = 0 THEN s ELSE DropLast(s, 2))}}) :
                s \in {strip(memory_str)},
                k \in {MemoryPower(strip(memory_str))}})

\* float(number) scaled by 10^e to millicores.
MillicoresOf(number, e) ==
    IF number.exc # None THEN [exc |-> number.exc, millicores |-> Dec(0, 0)]
    ELSE [exc |-> None,
          millicores |-> Dec(NatOf(number.digits), e - number.scale)]

parse_cpu_to_millicores(cpu_str) ==
    IF Falsy(cpu_str) THEN [exc |-> None, millicores |-> Dec(0, 0)]
    ELSE The({IF endswith(s, "n")
              THEN The({MillicoresOf(number, -6) :
                          number \in {float(DropLast(s, 1))}})
              ELSE IF endswith(s, "m")
              THEN The({MillicoresOf(number, 0) :
                          number \in {float(DropLast(s, 1))}})
              ELSE The({MillicoresOf(number, 3) : number \in {float(s)}}) :
                s \in {strip(cpu_str)}})

\* A plausible slip: every suffix rendered from the parsed value, the
\* millicore suffix included.
format_cpu_usage_one_decimal(cpu_str) ==
    IF Falsy(cpu_str) THEN [exc |-> None, text |-> "N/A"]
    ELSE The({IF parsed.exc # None THEN [exc |-> parsed.exc, text |-> ""]
              ELSE [exc |-> None, text |-> format_1f(parsed.millicores) \o "m"] :
                parsed \in {parse_cpu_to_millicores(cpu_str)}})

format_cpu_usage(cpu_str) ==
    IF Falsy(cpu_str) THEN [exc |-> None, text |-> "N/A"]
    ELSE IF endswith(cpu_str, "n")
    THEN The({IF nanocores.exc # None
              THEN [exc |-> nanocores.exc, text |-> ""]
              ELSE [exc |-> None,
                    text |-> format_1f(Dec(nanocores.value, -6)) \o "m"] :
                nanocores \in {int(DropLast(cpu_str, 1))}})
    ELSE IF endswith(cpu_str, "m")
    THEN [exc |-> None, text |-> cpu_str]
    ELSE The({IF cores.exc # None THEN [exc |-> cores.exc, text |-> ""]
              ELSE [exc |-> None,
                    text |-> format_1f(Dec(NatOf(cores.digits), 3 - cores.scale))
                             \o "m"] :
                cores \in {float(cpu_str)}})

\* A plausible slip: each unit chosen only above its threshold, not at it.
FormatBytes_above(bytes_val) ==
    The({IF CmpLimbs(v, Shift(<<1>>, 3)) > 0 THEN format_1f_binary(v, 3) \o "Gi"
         ELSE IF CmpLimbs(v, Shift(<<1>>, 2)) > 0
         THEN format_1f_binary(v, 2) \o "Mi"
         ELSE IF CmpLimbs(v, Shift(<<1>>, 1)) > 0
         THEN format_1f_binary(v, 1) \o "Ki"
         ELSE BigToStr(v) \o "B" :
            v \in {bytes_val}})

\* The rendering of a byte count, lines 232-238.
FormatBytes(bytes_val) ==
    IF Len(bytes_val) >= 4 THEN format_1f_binary(bytes_val, 3) \o "Gi"
    ELSE IF Len(bytes_val) = 3 THEN format_1f_binary(bytes_val, 2) \o "Mi"
    ELSE IF Len(bytes_val) = 2 THEN format_1f_binary(bytes_val, 1) \o "Ki"
    ELSE BigToStr(bytes_val) \o "B"

format_memory_usage(memory_str) ==
    IF Falsy(memory_str) THEN [exc |-> None, text |-> "N/A"]
    ELSE The({IF parsed.exc # None THEN [exc |-> parsed.exc, text |-> ""]
              ELSE [exc |-> None, text |-> FormatBytes(parsed.bytes)] :
                parsed \in {parse_memory_to_bytes(memory_str)}})

format_memory_with_percentage(used_str, requested_str) ==
    IF Falsy(used_str) THEN [exc |-> None, text |-> "N/A"]
    ELSE The({
        IF used.exc # None THEN [exc |-> used.exc, text |-> ""]
        ELSE IF Falsy(requested_str) THEN format_memory_usage(used_str)
        ELSE The({
            IF requested.exc # None THEN [exc |-> requested.exc, text |-> ""]
            ELSE IF requested.bytes = << >> THEN format_memory_usage(used_str)
            ELSE [exc |-> None,
                  text |-> format_memory_usage(used_str).text \o " / "
                           \o format_memory_usage(requested_str).text \o " ("
                           \o format_0f_bytes(used.bytes, requested.bytes)
                           \o "%)"] :
            requested \in {parse_memory_to_bytes(requested_str)}}) :
        used \in {parse_memory_to_bytes(used_str)}})

format_cpu_with_percentage(used_str, requested_str) ==
    IF Falsy(used_str) THEN [exc |-> None, text |-> "N/A"]
    ELSE The({
        IF used.exc # None THEN [exc |-> used.exc, text |-> ""]
        ELSE IF Falsy(requested_str) THEN format_cpu_usage(used_str)
        ELSE The({
            IF requested.exc # None THEN [exc |-> requested.exc, text |-> ""]
            ELSE IF requested.millicores.mant = 0 THEN format_cpu_usage(used_str)
            ELSE The({
                IF used_formatted.exc # None THEN used_formatted
                ELSE IF requested_formatted.exc # None THEN requested_formatted
                ELSE [exc |-> None,
                      text |-> used_formatted.text \o " / "
                               \o requested_formatted.text \o " ("
                               \o format_0f_ratio(used.millicores,
                                                  requested.millicores)
                               \o "%)"] :
                used_formatted \in {format_cpu_usage(used_str)},
                requested_formatted \in {format_cpu_usage(requested_str)}}) :
            requested \in {parse_cpu_to_millicores(requested_str)}}) :
        used \in {parse_cpu_to_millicores(used_str)}})

(***************************************************************************)
(* SpecQuantity: one observed quantity and one baseline (a limit or a      *)
(* request), handed to one of the six functions. quant.out is the outcome  *)
(* of the call: exc, and the value returned (text of a formatter, bytes of *)
(* parse_memory_to_bytes, millicores of parse_cpu_to_millicores).          *)
(***************************************************************************)
UsedCpu ==
    {None, "", "0", "1", "0.5", "50m", "150m", "500m", "15.2m", "250000000n",
     "1250000n", "1.5n", "1k", "abc", "N/A"}

BaseCpu == {None, "", "0", "100m", "1", "1k"}

UsedMemory ==
    {None, "", "0", "512", "1073741824", "2048Ki", "64Mi", "128Mi", "1.5Gi",
     "1Ti", " 128Mi ", "512B", "512M", "abc", "N/A"}

BaseMemory == {None, "", "0", "128Mi", "1Gi", "512M"}

Returned(r) ==
    [exc        |-> r.exc,
     text       |-> IF "text" \in DOMAIN r THEN r.text ELSE "",
     bytes      |-> IF "bytes" \in DOMAIN r THEN r.bytes ELSE << >>,
     millicores |-> IF "millicores" \in DOMAIN r THEN r.millicores ELSE Dec(0, 0)]

QuantityInit ==
    /\ AppDown
    /\ env = LocalEnv
    /\ pol = NoProjection
    /\ age = NoAge
    /\ \/ \E u \in UsedCpu, b \in BaseCpu :
            quant = [kind |-> "cpu", used |-> u, base |-> b, fn |-> "none",
                     out |-> NoOutcome, back |-> NoOutcome]
       \/ \E u \in UsedMemory, b \in BaseMemory :
            quant = [kind |-> "memory", used |-> u, base |-> b, fn |-> "none",
                     out |-> NoOutcome, back |-> NoOutcome]

call_parse_cpu_to_millicores ==
    /\ quant.fn = "none"
    /\ quant.kind = "cpu"
    /\ quant' = [quant EXCEPT !.fn = "parse",
                               !.out = Returned(parse_cpu_to_millicores(quant.used))]
    /\ UNCHANGED <<appvars, pol, age>>

call_parse_memory_to_bytes ==
    /\ quant.fn = "none"
    /\ quant.kind = "memory"
    /\ quant' = [quant EXCEPT !.fn = "parse",
                               !.out = Returned(parse_memory_to_bytes(quant.used))]
    /\ UNCHANGED <<appvars, pol, age>>

call_format_cpu_usage ==
    /\ quant.fn = "none"
    /\ quant.kind = "cpu"
    /\ quant' = [quant EXCEPT !.fn = "format",
                               !.out = Returned(format_cpu_usage(quant.used))]
    /\ UNCHANGED <<appvars, pol, age>>

call_format_memory_usage ==
    /\ quant.fn = "none"
    /\ quant.kind = "memory"
    /\ quant' = [quant EXCEPT !.fn = "format",
                               !.out = Returned(format_memory_usage(quant.used))]
    /\ UNCHANGED <<appvars, pol, age>>

call_format_cpu_with_percentage ==
    /\ quant.fn = "none"
    /\ quant.kind = "cpu"
    /\ quant' = [quant EXCEPT !.fn = "with_percentage",
                               !.out = Returned(
                     format_cpu_with_percentage(quant.used, quant.base))]
    /\ UNCHANGED <<appvars, pol, age>>

call_format_memory_with_percentage ==
    /\ quant.fn = "none"
    /\ quant.kind = "memory"
    /\ quant' = [quant EXCEPT !.fn = "with_percentage",
                               !.out = Returned(
                     format_memory_with_percentage(quant.used, quant.base))]
    /\ UNCHANGED <<appvars, pol, age>>

\* The formatted value parsed again, as pod_details_page does with the
\* strings get_pod_metrics has formatted.
parse_formatted_cpu ==
    /\ quant.fn = "format"
    /\ quant.kind = "cpu"
    /\ quant.out.exc = None
    /\ quant' = [quant EXCEPT !.fn = "round_trip",
                               !.back = Returned(
                     parse_cpu_to_millicores(quant.out.text))]
    /\ UNCHANGED <<appvars, pol, age>>

parse_formatted_memory ==
    /\ quant.fn = "format"
    /\ quant.kind = "memory"
    /\ quant.out.exc = None
    /\ quant' = [quant EXCEPT !.fn = "round_trip",
                               !.back = Returned(
                     parse_memory_to_bytes(quant.out.text))]
    /\ UNCHANGED <<appvars, pol, age>>

QuantityNext ==
    \/ call_parse_cpu_to_millicores
    \/ call_parse_memory_to_bytes
    \/ call_format_cpu_usage
    \/ call_format_memory_usage
    \/ call_format_cpu_with_percentage
    \/ call_format_memory_with_percentage
    \/ parse_formatted_cpu
    \/ parse_formatted_memory

SpecQuantity == QuantityInit /\ [][QuantityNext]_vars

(***************************************************************************)
(* The age formatter. A datetime is counted in seconds and microseconds    *)
(* of its wall clock; an aware one carries its offset from UTC.            *)
(***************************************************************************)
Day == 86400

Million == 1000000

\* now - created_time of two naive datetimes, normalised as timedelta does:
\* 0 <= seconds < 86400 and 0 <= microseconds < 10^6, the sign in days.
Delta(now, created_time) ==
    LET borrow == IF now.us < created_time.us THEN 1 ELSE 0
        whole  == now.secs - created_time.secs - borrow
    IN  [days         |-> whole \div Day,
         seconds      |-> whole % Day,
         microseconds |-> now.us - created_time.us + borrow * Million]

\* A plausible slip: the days branch left out.
format_age_without_days(created_time, now) ==
    IF ~created_time.present THEN "Unknown"
    ELSE LET delta == Delta(now, created_time)
         IN  IF delta.seconds >= 3600 THEN ToStr(delta.seconds \div 3600) \o "h"
             ELSE IF delta.seconds >= 60 THEN ToStr(delta.seconds \div 60) \o "m"
             ELSE ToStr(delta.seconds) \o "s"

\* format_age(created_time), lines 91-110, with the datetime.utcnow() it
\* reads. replace(tzinfo=None) keeps the wall clock and drops the offset.
format_age(created_time, now) ==
    IF ~created_time.present THEN "Unknown"
    ELSE LET naive == [created_time EXCEPT !.aware = FALSE, !.utcoffset = 0]
             delta == Delta(now, naive)
         IN  IF delta.days > 0 THEN ToStr(delta.days) \o "d"
             ELSE IF delta.seconds >= 3600
             THEN ToStr(delta.seconds \div 3600) \o "h"
             ELSE IF delta.seconds >= 60
             THEN ToStr(delta.seconds \div 60) \o "m"
             ELSE ToStr(delta.seconds) \o "s"

\* The clock at the call.
Now == [secs |-> 1000000, us |-> 250000]

\* How long before the call the resource was created: whole seconds, and
\* the microsecond field of the timestamp.
ElapsedSeconds == {0, 45, 59, 60, 3599, 3600, 5400, 86399, 86400, 180000}

Microseconds == {0, 500000}

\* Offsets from UTC of an aware timestamp: UTC, +02:00, -05:00.
UtcOffsets == {0, 7200, -18000}

\* The instant secs.us (UTC) as a naive datetime, or as an aware one at the
\* offset.
Naive(secs, us) ==
    [present |-> TRUE, secs |-> secs, us |-> us, aware |-> FALSE, utcoffset |-> 0]

Aware(secs, us, utcoffset) ==
    [present |-> TRUE, secs |-> secs + utcoffset, us |-> us, aware |-> TRUE,
     utcoffset |-> utcoffset]

CreatedTimes ==
    {NoTime}
    \cup {Naive(Now.secs - e, us) : e \in ElapsedSeconds, us \in Microseconds}
    \cup {Aware(Now.secs - e, us, o) :
            e \in ElapsedSeconds, us \in Microseconds, o \in UtcOffsets}

AgeInit ==
    /\ AppDown
    /\ env = LocalEnv
    /\ pol = NoProjection
    /\ quant = NoQuantity
    /\ \E created_time \in CreatedTimes :
         age = [now |-> Now, created_time |-> created_time, fn |-> "none",
                label |-> ""]

call_format_age ==
    /\ age.fn = "none"
    /\ age' = [age EXCEPT !.fn = "format_age",
                           !.label = format_age(age.created_time, age.now)]
    /\ UNCHANGED <<appvars, pol, quant>>

\* SpecAge: one call of format_age on one timestamp.
SpecAge == AgeInit /\ [][call_format_age]_vars

(***************************************************************************)
(* The pod views: get_pods and pod_details_page, from the fixtures of      *)
(* mock_data.py when USE_MOCK_DATA is set and from the cluster otherwise.  *)
(* A pod view model is [name, namespace, status, has_actions, actions]:    *)
(* has_actions says whether the dict has the key ('_actions' in the list,  *)
(* 'actions' in the details).                                              *)
(***************************************************************************)
\* Most pods one cluster answer lists.
MaxListed == 2

\* `sub in s` for strings.
Contains(s, sub) ==
    \E i \in 1..(Len(s) - Len(sub) + 1) : SubSeq(s, i, i + Len(sub) - 1) = sub

\* mock_data.get_mock_pods: all_pods.
MockPods ==
    <<[name |-> "nginx-deployment-5d59b8b8c6-abcde", namespace |-> "default", status |-> "Running"],
      [name |-> "redis-master-0", namespace |-> "default", status |-> "Running"],
      [name |-> "postgres-db-xyz123", namespace |-> "default", status |-> "Running"],
      [name |-> "api-server-deployment-abc123", namespace |-> "production", status |-> "Running"],
      [name |-> "worker-pod-1", namespace |-> "production", status |-> "Running"],
      [name |-> "frontend-app-def456", namespace |-> "staging", status |-> "Starting"],
      [name |-> "coredns-78fcd69978-p9q8r", namespace |-> "kube-system", status |-> "Running"],
      [name |-> "kube-proxy-xvw9k", namespace |-> "kube-system", status |-> "Running"]>>

\* The search filter of get_mock_pods and of get_pods (names, namespaces and
\* search terms here are lower case, so .lower() changes nothing).
Matches(search, name, namespace) ==
    search = "" \/ Contains(name, search) \/ Contains(namespace, search)

\* mock_data.get_mock_pods(namespace, search)
get_mock_pods(namespace, search) ==
    LET Keep(p) == /\ (namespace = "" \/ namespace = "all" \/ p.namespace = namespace)
                   /\ Matches(search, p.name, p.namespace)
    IN  SelectSeq(MockPods, Keep)

\* A fixture handed to the template as it is: it has no actions key.
MockView(p) ==
    [name |-> p.name, namespace |-> p.namespace, status |-> p.status,
     has_actions |-> FALSE, actions |-> <<>>]

\* mock_data.get_mock_pod_details(namespace, pod_name)
get_mock_pod_details(namespace, pod_name) ==
    [name |-> pod_name, namespace |-> namespace, status |-> "Running",
     has_actions |-> FALSE, actions |-> <<>>]

\* get_pods, lines 588-612: the view model of one listed pod.
ListView(pod) ==
    LET pod_status == get_pod_status(pod) IN
    [name |-> pod.name, namespace |-> pod.namespace, status |-> pod_status,
     has_actions |-> pod_status \in {"Running", "Starting", "Pending"},
     actions |-> IF pod_status \in {"Running", "Starting", "Pending"}
                 THEN get_available_actions(
                          [name |-> pod.name, namespace |-> pod.namespace,
                           status |-> pod_status])
                 ELSE <<>>]

\* pod_details_page, lines 703-717: the view model of the pod read.
DetailsView(pod) ==
    LET pod_data == [name |-> pod.name, namespace |-> pod.namespace,
                     status |-> get_pod_status(pod)]
    IN  [name |-> pod_data.name, namespace |-> pod_data.namespace,
         status |-> pod_data.status, has_actions |-> TRUE,
         actions |-> get_available_actions(pod_data)]

\* Pods the cluster may hold.
ClusterPods ==
    {p \in RawPods :
        /\ p.name = "web-0"
        /\ p.namespace \in {"default", "kube-system"}
        /\ p.phase \in {"Running", "Succeeded"}
        /\ p.has_statuses => p.container_statuses = <<FALSE>>}

\* What the cluster answers to a list call for a namespace: an exception,
\* or the pods of that namespace (of all namespaces for 'all').
ListAnswers(namespace) ==
    {[raises |-> TRUE, items |-> <<>>]}
    \cup {[raises |-> FALSE, items |-> items] :
            items \in UNION {[1..n -> {p \in ClusterPods :
                                         namespace = "all" \/ p.namespace = namespace}] :
                               n \in 0..MaxListed}}

\* What the cluster answers to read_namespaced_pod: an ApiException with its
\* status, or the pod of that name and namespace.
ReadAnswers(namespace, pod_name) ==
    {[raises |-> TRUE, status |-> 404, pod |-> NoProjection.pod]}
    \cup {[raises |-> FALSE, status |-> 200, pod |-> p] :
            p \in {q \in ClusterPods : q.name = pod_name /\ q.namespace = namespace}}

\* get_pods(), lines 548-621, for ?namespace=<namespace>&search=<search>.
get_pods(c, namespace, search, answer) ==
    /\ Idle(c)
    /\ last' =
         IF app.USE_MOCK_DATA
         THEN [Response(c, "pods_table.html") EXCEPT
                 !.source = "mock",
                 !.pods = LET found == get_mock_pods(namespace, search)
                          IN  [i \in 1..Len(found) |-> MockView(found[i])]]
         ELSE IF answer.raises
         THEN [Response(c, "error") EXCEPT
                 !.source = "live", !.code = 500, !.error = "Failed to fetch pods"]
         ELSE [Response(c, "pods_table.html") EXCEPT
                 !.source = "live",
                 !.pods = LET Keep(pod) == Matches(search, pod.name, pod.namespace)
                              kept == SelectSeq(answer.items, Keep)
                          IN  [i \in 1..Len(kept) |-> ListView(kept[i])]]
    /\ UNCHANGED <<env, app, k8s_client, session, req, pol, quant, age>>

\* What the metrics API answers for the pod's container: an exception, or
\* its usage (a key that is missing is None).
PodMetrics ==
    {[raises |-> TRUE, cpu |-> None, memory |-> None],
     [raises |-> FALSE, cpu |-> "250000000n", memory |-> "65536Ki"],
     [raises |-> FALSE, cpu |-> "1250000n", memory |-> "512"],
     [raises |-> FALSE, cpu |-> None, memory |-> "65536Ki"],
     [raises |-> FALSE, cpu |-> "250000000n", memory |-> None]}

\* The resources of the pod's container (None: not set).
ContainerResources ==
    {[cpu_limit |-> None, cpu_request |-> None,
      memory_limit |-> None, memory_request |-> None],
     [cpu_limit |-> "500m", cpu_request |-> "100m",
      memory_limit |-> "128Mi", memory_request |-> "64Mi"],
     [cpu_limit |-> None, cpu_request |-> "100m",
      memory_limit |-> "512M", memory_request |-> None]}

\* dict.get(key, '') of a usage value.
GetOrEmpty(v) == IF v = None THEN "" ELSE v

\* get_pod_metrics(), lines 287-315, for the one container: the dict of the
\* container's formatted usage, {} (present FALSE) on any exception.
get_pod_metrics(answer) ==
    IF answer.raises THEN [present |-> FALSE, cpu |-> "", memory |-> ""]
    ELSE The({IF cpu.exc # None \/ memory.exc # None
              THEN [present |-> FALSE, cpu |-> "", memory |-> ""]
              ELSE [present |-> TRUE, cpu |-> cpu.text, memory |-> memory.text] :
                cpu \in {format_cpu_usage(GetOrEmpty(answer.cpu))},
                memory \in {format_memory_usage(GetOrEmpty(answer.memory))}})

\* Python's `a or b` of two optional strings.
Or(a, b) == IF Falsy(a) THEN b ELSE a

\* Lines 649-675 of pod_details_page: the usage columns of the container.
ContainerUsage(container_metrics, resources) ==
    LET cpu_usage_raw    == container_metrics.cpu
        memory_usage_raw == container_metrics.memory
        cpu_base         == Or(resources.cpu_limit, resources.cpu_request)
        memory_base      == Or(resources.memory_limit, resources.memory_request)
    IN  The({[exc |-> IF cpu_display.exc # None THEN cpu_display.exc
                      ELSE memory_display.exc,
              cpu_usage |-> cpu_display.text,
              memory_usage |-> memory_display.text] :
            cpu_display \in
                {IF ~Falsy(cpu_base)
                 THEN format_cpu_with_percentage(cpu_usage_raw, cpu_base)
                 ELSE format_cpu_usage(cpu_usage_raw)},
            memory_display \in
                {IF ~Falsy(memory_base)
                 THEN format_memory_with_percentage(memory_usage_raw, memory_base)
                 ELSE format_memory_usage(memory_usage_raw)}})

\* pod_details_page(namespace, pod_name), lines 624-740, for a pod of one
\* container.
pod_details_page(c, namespace, pod_name, answer, metrics, resources) ==
    /\ Idle(c)
    /\ last' =
         IF app.USE_MOCK_DATA
         THEN [Response(c, "pod_details.html") EXCEPT
                 !.source = "mock",
                 !.pods = <<get_mock_pod_details(namespace, pod_name)>>]
         ELSE IF answer.raises
         THEN [Response(c, "error") EXCEPT
                 !.source = "live", !.code = answer.status,
                 !.error = "Failed to fetch pod details"]
         ELSE The({
                IF usage.exc # None
                THEN [Response(c, "error") EXCEPT
                        !.source = "live", !.code = 500,
                        !.error = "Failed to fetch pod details",
                        !.has_metrics = TRUE, !.metrics = metrics,
                        !.resources = resources]
                ELSE [Response(c, "pod_details.html") EXCEPT
                        !.source = "live",
                        !.has_metrics = TRUE, !.metrics = metrics,
                        !.resources = resources,
                        !.pods = <<DetailsView(answer.pod)>>,
                        !.cpu_usage = usage.cpu_usage,
                        !.memory_usage = usage.memory_usage] :
                usage \in {The({ContainerUsage(pod_metrics, resources) :
                                  pod_metrics \in {get_pod_metrics(metrics)}})}})
    /\ UNCHANGED <<env, app, k8s_client, session, req, pol, quant, age>>

\* Namespaces and search terms the list view is asked for.
ListedNamespaces == {"default", "kube-system", "all"}

SearchTerms == {"", "redis"}

\* The environments the views are served in: a workstation whose kubeconfig
\* is readable or missing, with and without USE_MOCK_DATA.
ViewEnvs ==
    {e \in Envs :
        /\ ~e.marker
        /\ ~e.incluster_ok
        /\ \/ e.kubeconfig = LocalEnv.kubeconfig
           \/ e.kubeconfig.exc = "ConfigException"}

ViewsInit ==
    /\ AppDown
    /\ env \in ViewEnvs
    /\ pol = NoProjection
    /\ quant = NoQuantity
    /\ age = NoAge

ViewsNext ==
    \/ create_app
    \/ \E c \in Clients, namespace \in ListedNamespaces, search \in SearchTerms :
         \E answer \in ListAnswers(namespace) :
            get_pods(c, namespace, search, answer)
    \/ \E c \in Clients, namespace \in ListedNamespaces \ {"all"}, pod_name \in PodNames :
         \E answer \in ReadAnswers(namespace, pod_name),
            metrics \in PodMetrics, resources \in ContainerResources :
            pod_details_page(c, namespace, pod_name, answer, metrics, resources)

\* SpecViews: the application after create_app, serving the pod views.
SpecViews == ViewsInit /\ [][ViewsNext]_vars

(***************************************************************************)
(* The other handlers that serve cluster data, and SpecData: the           *)
(* application serving them while clients switch contexts.                 *)
(***************************************************************************)
\* mock_data.get_mock_namespaces(): the names of the fixtures.
get_mock_namespaces ==
    <<"default", "kube-system", "kube-public", "production", "staging",
      "development">>

\* The first line of mock_data.get_mock_pod_logs()['logs'].
get_mock_pod_logs == "2025-11-01 07:00:00 INFO Starting application..."

\* What the cluster answers to list_namespace().
NamespaceAnswers ==
    {[raises |-> TRUE, items |-> <<>>],
     [raises |-> FALSE, items |-> <<"default", "team-a">>]}

\* What the cluster answers to read_namespaced_pod_log: an ApiException
\* with its status, or the log. (delete_namespaced_pod is answered like
\* read_namespaced_pod: an ApiException, or the pod that was there.)
CallAnswers ==
    {[raises |-> TRUE, status |-> 404, logs |-> ""],
     [raises |-> FALSE, status |-> 200, logs |-> "GET /health 200"]}

\* get_namespaces(), lines 508-545.
get_namespaces(c, answer) ==
    /\ Idle(c)
    /\ last' =
         IF app.USE_MOCK_DATA
         THEN [Response(c, "namespace_options.html") EXCEPT
                 !.source = "mock", !.namespaces = get_mock_namespaces]
         ELSE IF answer.raises
         THEN [Response(c, "error") EXCEPT
                 !.source = "live", !.code = 500,
                 !.error = "Failed to fetch namespaces"]
         ELSE [Response(c, "namespace_options.html") EXCEPT
                 !.source = "live", !.namespaces = answer.items]
    /\ UNCHANGED <<env, app, k8s_client, session, req, pol, quant, age>>

\* pod_logs_page(namespace, pod_name, container), lines 743-792; the route
\* gives it a container name.
pod_logs_page(c, namespace, pod_name, container, answer) ==
    /\ Idle(c)
    /\ last' =
         IF app.USE_MOCK_DATA
         THEN [Response(c, "logs.html") EXCEPT
                 !.source = "mock", !.logs = get_mock_pod_logs]
         ELSE IF answer.raises
         THEN [Response(c, "error") EXCEPT
                 !.source = "live", !.code = answer.status,
                 !.error = "Failed to fetch pod logs"]
         ELSE [Response(c, "logs.html") EXCEPT
                 !.source = "live", !.logs = answer.logs]
    /\ UNCHANGED <<env, app, k8s_client, session, req, pol, quant, age>>

\* pod_logs_api(namespace, pod_name), lines 795-847, for ?container=...
\* (None: the parameter is missing).
pod_logs_api(c, namespace, pod_name, container, answer) ==
    /\ Idle(c)
    /\ last' =
         IF container = None
         THEN [Response(c, "error") EXCEPT
                 !.code = 400, !.error = "Container parameter required"]
         ELSE IF app.USE_MOCK_DATA
         THEN [Response(c, "pod_logs_modal.html") EXCEPT
                 !.source = "mock", !.logs = get_mock_pod_logs]
         ELSE IF answer.raises
         THEN [Response(c, "error") EXCEPT
                 !.source = "live", !.code = answer.status,
                 !.error = "Failed to fetch pod logs"]
         ELSE [Response(c, "pod_logs_modal.html") EXCEPT
                 !.source = "live", !.logs = answer.logs]
    /\ UNCHANGED <<env, app, k8s_client, session, req, pol, quant, age>>

\* A plausible slip: the deletion sent whatever the data source.
delete_pod_unguarded(c, namespace, pod_name, answer) ==
    /\ Idle(c)
    /\ last' =
         IF answer.raises
         THEN [Response(c, "redirect:pod_details_page") EXCEPT
                 !.source = "live", !.code = 302,
                 !.flash = "Error: Failed to delete pod"]
         ELSE [Response(c, "redirect:index") EXCEPT
                 !.source = "live", !.code = 302, !.deleted = pod_name,
                 !.deleted_from = namespace,
                 !.deleted_status = get_pod_status(answer.pod),
                 !.flash = "Pod " \o pod_name \o " deleted successfully"]
    /\ UNCHANGED <<env, app, k8s_client, session, req, pol, quant, age>>

\* delete_pod(namespace, pod_name), lines 850-876.
delete_pod(c, namespace, pod_name, answer) ==
    /\ Idle(c)
    /\ last' =
         IF app.USE_MOCK_DATA
         THEN [Response(c, "redirect:index") EXCEPT
                 !.source = "mock", !.code = 302,
                 !.flash = "Pod " \o pod_name
                             \o " deleted successfully (mock mode)"]
         ELSE IF answer.raises
         THEN [Response(c, "redirect:pod_details_page") EXCEPT
                 !.source = "live", !.code = 302,
                 !.flash = "Error: Failed to delete pod"]
         ELSE [Response(c, "redirect:index") EXCEPT
                 !.source = "live", !.code = 302, !.deleted = pod_name,
                 !.deleted_from = namespace,
                 !.deleted_status = get_pod_status(answer.pod),
                 !.flash = "Pod " \o pod_name \o " deleted successfully"]
    /\ UNCHANGED <<env, app, k8s_client, session, req, pol, quant, age>>

\* restart_pod(namespace, pod_name), lines 879-905.
restart_pod(c, namespace, pod_name, answer) ==
    /\ Idle(c)
    /\ last' =
         IF app.USE_MOCK_DATA
         THEN [Response(c, "redirect:pod_details_page") EXCEPT
                 !.source = "mock", !.code = 302,
                 !.flash = "Pod " \o pod_name
                             \o " restarted successfully (mock mode)"]
         ELSE IF answer.raises
         THEN [Response(c, "redirect:pod_details_page") EXCEPT
                 !.source = "live", !.code = 302,
                 !.flash = "Error: Failed to restart pod"]
         ELSE [Response(c, "redirect:pod_details_page") EXCEPT
                 !.source = "live", !.code = 302, !.deleted = pod_name,
                 !.deleted_from = namespace,
                 !.deleted_status = get_pod_status(answer.pod),
                 !.flash = "Pod " \o pod_name \o " restarted successfully"]
    /\ UNCHANGED <<env, app, k8s_client, session, req, pol, quant, age>>

\* get_pod_metrics_endpoint(namespace, pod_name), lines 908-924, for the
\* pod's one container; get_pod_metrics catches every exception itself.
get_pod_metrics_endpoint(c, namespace, pod_name, metrics) ==
    /\ Idle(c)
    /\ last' =
         IF app.USE_MOCK_DATA
         THEN [Response(c, "json") EXCEPT
                 !.source = "mock",
                 !.cpu_usage = "15.2m / 100m (15%)",
                 !.memory_usage = "64Mi / 128Mi (50%)"]
         ELSE The({[Response(c, "json") EXCEPT
                      !.source = "live",
                      !.has_metrics = TRUE, !.metrics = metrics,
                      !.cpu_usage = pod_metrics.cpu,
                      !.memory_usage = pod_metrics.memory] :
                    pod_metrics \in {get_pod_metrics(metrics)}})
    /\ UNCHANGED <<env, app, k8s_client, session, req, pol, quant, age>>

\* The environments of SpecData: a workstation (no service-account token)
\* with any kubeconfig, with and without USE_MOCK_DATA.
DataEnvs == {e \in Envs : ~e.marker /\ ~e.incluster_ok}

\* What is asked of the data handlers.
DataNamespaces == {"default"}

\* The namespaces of the pods the delete and restart routes are asked for.
MutatedNamespaces == {"default", "kube-system"}

Containers == {None, "nginx"}

\* The context names asked for while data is served: one the kubeconfig
\* may hold and one it does not.
SwitchNames == {"prod", "ghost"}

DataInit ==
    /\ AppDown
    /\ env \in DataEnvs
    /\ pol = NoProjection
    /\ quant = NoQuantity
    /\ age = NoAge

\* A request for cluster data by client c.
DataRequest(c) ==
    \E namespace \in DataNamespaces, pod_name \in PodNames :
        \/ \E answer \in NamespaceAnswers : get_namespaces(c, answer)
        \/ \E answer \in {a \in ListAnswers(namespace) : Len(a.items) <= 1} :
              get_pods(c, namespace, "", answer)
        \/ \E answer \in ReadAnswers(namespace, pod_name),
               metrics \in PodMetrics :
              pod_details_page(c, namespace, pod_name, answer, metrics,
                               NoResources)
        \/ \E answer \in CallAnswers :
              pod_logs_page(c, namespace, pod_name, "nginx", answer)
        \/ \E answer \in CallAnswers, container \in Containers :
              pod_logs_api(c, namespace, pod_name, container, answer)
        \/ \E target \in MutatedNamespaces :
              \E answer \in ReadAnswers(target, pod_name) :
                 delete_pod(c, target, pod_name, answer)
        \/ \E target \in MutatedNamespaces :
              \E answer \in ReadAnswers(target, pod_name) :
                 restart_pod(c, target, pod_name, answer)
        \/ \E metrics \in PodMetrics :
              get_pod_metrics_endpoint(c, namespace, pod_name, metrics)

DataNext ==
    \/ create_app
    \/ \E c \in Clients :
        \/ \E n \in SwitchNames : use_context_begin(c, n)
        \/ use_context_493(c)
        \/ use_context_496(c)
        \/ use_context_497(c)
        \/ DataRequest(c)

SpecData == DataInit /\ [][DataNext]_vars

(***************************************************************************)
(* The claims.                                                             *)
(***************************************************************************)
Policed == pol.stage = "policed"

\* C1: get_available_actions returns a DELETE descriptor iff the namespace
\* does not start with "kube-" or is one of default, production, staging,
\* development, whatever the status; the descriptor has style 'danger' and a
\* confirmation prompt; (kube-system, Running) gets no delete and
\* (default, Succeeded) gets exactly [delete].
C1_DeleteDependsOnNamespaceOnly ==
    Policed =>
        LET ns == pol.pod.namespace
            a  == pol.actions
        IN  /\ HasAction(a, "DELETE")
                 <=> (~startswith(ns, "kube-")
                      \/ ns \in {"default", "production", "staging", "development"})
            /\ \A i \in 1..Len(a) :
                 a[i].label = "DELETE" =>
                     /\ a[i].style = "danger"
                     /\ a[i].method = "DELETE"
                     /\ Len(a[i].confirm) > 0
            /\ (ns = "kube-system" /\ pol.status = "Running")
                 => ~HasAction(a, "DELETE")
            /\ (ns = "default" /\ pol.status = "Succeeded")
                 => Labels(a) = <<"DELETE">>

C1_Witness ==
    /\ Policed
    /\ pol.pod.namespace = "default" /\ pol.status = "Succeeded"
    /\ Labels(pol.actions) = <<"DELETE">>

\* C2: get_available_actions returns a RESTART descriptor iff the status is
\* Running, Starting or Pending; the descriptor has style 'warning' and a
\* confirmation prompt; with both actions restart comes first, and no other
\* action is ever returned.
C2_RestartDependsOnStatusAndComesFirst ==
    Policed =>
        LET a == pol.actions
        IN  /\ HasAction(a, "RESTART")
                 <=> pol.status \in {"Running", "Starting", "Pending"}
            /\ \A i \in 1..Len(a) :
                 a[i].label = "RESTART" =>
                     /\ a[i].style = "warning"
                     /\ Len(a[i].confirm) > 0
            /\ (HasAction(a, "RESTART") /\ HasAction(a, "DELETE"))
                 => Labels(a) = <<"RESTART", "DELETE">>
            /\ Labels(a) \in {<<>>, <<"RESTART">>, <<"DELETE">>,
                              <<"RESTART", "DELETE">>}
            /\ (pol.pod.namespace = "production" /\ pol.status = "Running")
                 => Labels(a) = <<"RESTART", "DELETE">>

C2_Witness ==
    /\ Policed
    /\ pol.pod.namespace = "production" /\ pol.status = "Pending"
    /\ Labels(pol.actions) = <<"RESTART", "DELETE">>

\* C9: get_pod_status returns the raw phase verbatim when the phase is not
\* "Running"; for "Running" it returns "Running" when the readiness data is
\* absent, empty or all ready, and "Starting" when some container is not
\* ready; it returns nothing else.
C9_StatusDerivation ==
    pol.stage \in {"derived", "policed"} =>
        LET p  == pol.pod
            cs == p.container_statuses
        IN  /\ p.phase # "Running" => pol.status = p.phase
            /\ (p.phase = "Running"
                  /\ (~p.has_statuses \/ Len(cs) = 0
                      \/ \A i \in 1..Len(cs) : cs[i] = TRUE))
                 => pol.status = "Running"
            /\ (p.phase = "Running" /\ p.has_statuses
                  /\ \E i \in 1..Len(cs) : cs[i] = FALSE)
                 => pol.status = "Starting"
            /\ pol.status \in {p.phase, "Running", "Starting"}

C9_Witness ==
    /\ pol.stage = "derived"
    /\ pol.pod.phase = "Running"
    /\ pol.pod.container_statuses = <<TRUE, FALSE>>
    /\ pol.status = "Starting"

\* C3: every pod view model handed to the templates carries exactly the
\* actions of get_available_actions for its (namespace, status): in the pod
\* list and in the pod details, from the cluster and from the fixtures.
C3_ViewsCarryPolicyActions ==
    \A i \in 1..Len(last.pods) :
        LET vm == last.pods[i] IN
        /\ vm.has_actions
        /\ vm.actions = get_available_actions(
                            [name |-> vm.name, namespace |-> vm.namespace,
                             status |-> vm.status])

\* The local credential set cannot give a default context: reading it
\* raises, or it names no current context.
NoLocalDefault == env.kubeconfig.exc # None \/ env.kubeconfig.current = None

\* C4: when the resolution at process start fails while not in-cluster,
\* create_app completes with the substitute-source flag set, no active
\* context name and a non-empty diagnostic message.
C4_StartupFailureEndsInSubstituteMode ==
    /\ [](~app.up => ENABLED create_app)
    /\ [][(~app.up /\ app'.up /\ ~env.USE_MOCK_DATA /\ ~env.marker /\ NoLocalDefault)
            => /\ app'.USE_MOCK_DATA
               /\ app'.K8S_CONTEXT = None
               /\ app'.K8S_MESSAGE # None
               /\ Len(app'.K8S_MESSAGE) > 0]_vars

C4_Witness ==
    /\ app.up /\ app.USE_MOCK_DATA /\ ~env.USE_MOCK_DATA
    /\ ~app.RUNNING_IN_CLUSTER /\ env.kubeconfig.exc = "Exception"
    /\ app.K8S_CONTEXT = None
    /\ app.K8S_MESSAGE = "Using mock data: Unexpected error loading Kubernetes config: "

\* The step of client c in which its use_context request fails to load.
FailedSwitch(c) ==
    /\ req[c].op = "use_context" /\ req[c].pc = "493"
    /\ req'[c].pc = "idle"

\* C5: a use_context whose load fails leaves K8S_CONTEXT, K8S_MESSAGE,
\* USE_MOCK_DATA and the session as they were; the failure message goes to
\* the caller's response only.
C5_FailedSwitchChangesNothing ==
    [][\A c \in Clients :
         FailedSwitch(c) =>
             /\ app' = app
             /\ session' = session
             /\ last'.client = c
             /\ last'.kind = "context_selector.html"
             /\ startswith(last'.error, "Failed to switch context: ")]_vars

C5_Witness ==
    /\ last.kind = "context_selector.html" /\ last.error # None
    /\ app.K8S_CONTEXT = "dev"
    /\ app.K8S_MESSAGE = "Using default Kubernetes context"
    /\ ~app.USE_MOCK_DATA

\* What app.config holds for (K8S_CONTEXT, K8S_MESSAGE) after a whole
\* resolution: never set, set by a successful load, or the fallback at start.
ResolutionPairs ==
    {<<None, None>>}
    \cup {<<r.context, r.message>> :
            r \in {x \in {load_k8s_config(e, n) :
                            e \in Envs, n \in RequestedNames \cup {None}} :
                      x.success}}
    \cup {<<None, "Using mock data: " \o r.message>> :
            r \in {x \in {load_k8s_config(e, None) : e \in Envs} :
                      ~x.success}}

\* C6: an index page shows a context name and a diagnostic message that
\* belong together: both from before a concurrent switch or both from after.
C6_IndexSeesOneResolution ==
    last.kind = "index.html"
        => <<last.k8s_context, last.k8s_message>> \in ResolutionPairs

\* C7: a successful switch to context N records N as the active context,
\* also when the token file is present at the moment of the switch.
C7_SwitchRecordsRequestedName ==
    [][\A c \in Clients :
         (req[c].op = "use_context" /\ req[c].pc = "496" /\ req'[c].pc = "497")
             => app'.K8S_CONTEXT = req[c].context_name]_vars

\* The step of client c in which its use_context request calls load_k8s_config.
LoadStep(c) ==
    /\ req[c].op = "use_context" /\ req[c].pc = "493"
    /\ req'[c] # req[c]

InClusterFailure == "Kubernetes configuration error: Service host/port is not set."

\* C8 as stated: with the token file present every resolution succeeds with
\* the in-cluster identity.
C8_MarkerAlwaysResolves ==
    [][/\ (~app.up /\ app'.up /\ env.marker /\ ~env.USE_MOCK_DATA)
            => (app'.K8S_CONTEXT = "in-cluster" /\ ~app'.USE_MOCK_DATA)
       /\ \A c \in Clients :
            (LoadStep(c) /\ env.marker)
                => (req'[c].pc = "496" /\ req'[c].res.context = "in-cluster")]_vars

\* C8, amended: with the token file present a resolution takes the in-cluster
\* branch whatever context name is requested and whatever the kubeconfig
\* holds: it yields the in-cluster identity when the in-cluster
\* configuration loads and the in-cluster failure otherwise; and while the
\* application is marked in-cluster, no request changes the active context,
\* the message or a session, and use_context and select_context redirect.
C8_MarkerTakesInClusterBranch ==
    [][/\ (~app.up /\ app'.up /\ env.marker /\ ~env.USE_MOCK_DATA)
            => IF env.incluster_ok
               THEN /\ app'.K8S_CONTEXT = "in-cluster"
                    /\ k8s_client' = "in-cluster"
                    /\ ~app'.USE_MOCK_DATA
               ELSE /\ app'.USE_MOCK_DATA
                    /\ app'.K8S_CONTEXT = None
                    /\ app'.K8S_MESSAGE = "Using mock data: " \o InClusterFailure
       /\ \A c \in Clients :
            (LoadStep(c) /\ env.marker)
                => IF env.incluster_ok
                   THEN /\ req'[c].pc = "496"
                        /\ req'[c].res.context = "in-cluster"
                        /\ k8s_client' = "in-cluster"
                   ELSE /\ req'[c].pc = "idle"
                        /\ last'.error = "Failed to switch context: " \o InClusterFailure
                        /\ k8s_client' = k8s_client
       /\ (app.up /\ app.RUNNING_IN_CLUSTER)
            => /\ app' = app
               /\ session' = session
               /\ \A c \in Clients : req'[c].op # "use_context"
               /\ (last' # last /\ req' = req) => last'.kind = "redirect:index"]_vars

C8_Witness ==
    /\ app.up /\ app.RUNNING_IN_CLUSTER
    /\ app.K8S_CONTEXT = "in-cluster" /\ k8s_client = "in-cluster"
    /\ env.kubeconfig.exc # None
    /\ last.kind = "redirect:index"
    /\ \A c \in Clients : session[c] = None
\* C10: no parser or formatter of the quantity normalizer raises; whatever
\* the quantity string (non-numeric text, an unknown suffix such as "512B" or
\* "1k", a fractional nanocore value such as "1.5n"), the call returns.
C10_NoQuantityCallRaises == quant.fn # "none" => quant.out.exc = None

\* The text between "(" and "%)" of a usage ratio, "" when there is no "(".
PercentOf(text) ==
    IF \E i \in 1..Len(text) : ch(text, i) = "("
    THEN SubSeq(text, (CHOOSE i \in 1..Len(text) : ch(text, i) = "(") + 1,
                Len(text) - 2)
    ELSE ""

\* p is 100 * u / b to the nearest integer, for decimal fractions u and b:
\* 2 * |100 * u - p * b| <= b, on the integers u and b are at their smaller
\* exponent.
NearestPercent(p, u, b) ==
    LET e  == IF u.exp < b.exp THEN u.exp ELSE b.exp
        ui == u.mant * Pow10(u.exp - e)
        bi == b.mant * Pow10(b.exp - e)
        d  == 100 * ui - p * bi
    IN  2 * (IF d < 0 THEN -d ELSE d) <= bi

\* The same for byte counts u and b.
NearestPercentBytes(p, u, b) ==
    LET x    == MulSmall(u, 100)
        y    == MulSmall(b, p)
        diff == IF CmpLimbs(x, y) >= 0 THEN SubLimbs(x, y) ELSE SubLimbs(y, x)
    IN  CmpLimbs(MulSmall(diff, 2), b) <= 0

\* A decimal numeral without sign or leading zeros.
IsNumeral(t) == t # "" /\ AllDigits(t) /\ ToStr(NatOf(t)) = t

\* The three cases of the usage ratio, for an observed value u and a baseline
\* b that parse (parsed_u, parsed_b: their values, zero_b: the baseline is
\* zero, near: the percentage test), plain the plain formatter.
RatioCases(out, u, b, plain_u, plain_b, b_parses, zero_b, near) ==
    /\ Falsy(u) => out.exc = None /\ out.text = "N/A"
    /\ (~Falsy(u) /\ (Falsy(b) \/ (b_parses /\ zero_b)))
          => out.exc = plain_u.exc /\ out.text = plain_u.text
    /\ (~Falsy(u) /\ ~Falsy(b) /\ b_parses /\ ~zero_b
          /\ plain_u.exc = None /\ plain_b.exc = None)
          => /\ out.exc = None
             /\ IsNumeral(PercentOf(out.text))
             /\ out.text = plain_u.text \o " / " \o plain_b.text \o " ("
                            \o PercentOf(out.text) \o "%)"
             /\ near

\* C11: for CPU and memory alike, and for every observed value and baseline
\* that parse, the usage ratio is "N/A" when the observed value is absent,
\* the plain formatting of the observed value when the baseline is absent or
\* zero, and otherwise "{observed} / {baseline} ({p}%)" with p the nearest
\* integer to parse(observed) / parse(baseline) * 100, above 100 included.
C11_UsageRatio ==
    quant.fn = "with_percentage" =>
        IF quant.kind = "cpu"
        THEN LET u == parse_cpu_to_millicores(quant.used)
                 b == parse_cpu_to_millicores(quant.base)
             IN  u.exc = None =>
                   RatioCases(quant.out, quant.used, quant.base,
                              format_cpu_usage(quant.used),
                              format_cpu_usage(quant.base),
                              b.exc = None, b.millicores.mant = 0,
                              NearestPercent(NatOf(PercentOf(quant.out.text)),
                                             u.millicores, b.millicores))
        ELSE LET u == parse_memory_to_bytes(quant.used)
                 b == parse_memory_to_bytes(quant.base)
             IN  u.exc = None =>
                   RatioCases(quant.out, quant.used, quant.base,
                              format_memory_usage(quant.used),
                              format_memory_usage(quant.base),
                              b.exc = None, b.bytes = << >>,
                              NearestPercentBytes(NatOf(PercentOf(quant.out.text)),
                                                  u.bytes, b.bytes))

\* An observed value above its baseline: 150m of 100m.
C11_Witness ==
    /\ quant.fn = "with_percentage"
    /\ quant.kind = "cpu"
    /\ quant.used = "150m"
    /\ quant.base = "100m"
    /\ PercentOf(quant.out.text) = "150"

\* text is the decimal fraction x to the nearest tenth, with one decimal
\* place and an "m" suffix.
OneDecimalMillicores(text, x) ==
    /\ endswith(text, "m")
    /\ LET t == float(DropLast(text, 1))
       IN  /\ t.exc = None
           /\ t.scale = 1
           /\ ToStr(NatOf(t.digits) \div 10) \o "."
                 \o DigitChar(NatOf(t.digits) % 10) = DropLast(text, 1)
           /\ IF x.exp >= -1
              THEN NatOf(t.digits) = x.mant * Pow10(x.exp + 1)
              ELSE LET d == x.mant - NatOf(t.digits) * Pow10(-x.exp - 1)
                   IN  2 * (IF d < 0 THEN -d ELSE d) <= Pow10(-x.exp - 1)

\* A call of the CPU formatter that returned, on a present quantity.
CpuFormatted ==
    /\ quant.fn = "format"
    /\ quant.kind = "cpu"
    /\ ~Falsy(quant.used)
    /\ quant.out.exc = None

\* The usage ratio of the CPU values used and base is text.
CpuRatioIs(used, base, text) ==
    (/\ quant.fn = "with_percentage"
     /\ quant.kind = "cpu"
     /\ quant.used = used
     /\ quant.base = base) => quant.out.text = text

\* C12 (as stated): for every CPU suffix the formatter yields the parsed
\* millicore value with one decimal place and an "m" suffix, "500m" giving
\* "500.0m"; and 50m of 100m renders "50.0m / 100.0m (50%)", 150m of 100m
\* "150.0m / 100.0m (150%)".
C12_EverySuffixOneDecimal ==
    /\ CpuFormatted =>
          OneDecimalMillicores(quant.out.text,
                               parse_cpu_to_millicores(quant.used).millicores)
    /\ CpuRatioIs("50m", "100m", "50.0m / 100.0m (50%)")
    /\ CpuRatioIs("150m", "100m", "150.0m / 100.0m (150%)")

\* C12 (amended): a nanocore or bare-core quantity is formatted as its
\* parsed millicore value with one decimal place and an "m" suffix ("1" as
\* "1000.0m", "250000000n" as "250.0m"); a millicore quantity is returned as
\* it was given ("500m" as "500m"); so 50m of 100m renders
\* "50m / 100m (50%)" and 150m of 100m renders "150m / 100m (150%)".
C12_OneDecimalExceptMillicores ==
    /\ CpuFormatted =>
          /\ IF endswith(quant.used, "m")
             THEN quant.out.text = quant.used
             ELSE OneDecimalMillicores(quant.out.text,
                      parse_cpu_to_millicores(quant.used).millicores)
          /\ quant.used = "500m" => quant.out.text = "500m"
          /\ quant.used = "1" => quant.out.text = "1000.0m"
          /\ quant.used = "250000000n" => quant.out.text = "250.0m"
    /\ CpuRatioIs("50m", "100m", "50m / 100m (50%)")
    /\ CpuRatioIs("150m", "100m", "150m / 100m (150%)")

\* The formatter has returned a millicore quantity.
C12_Witness ==
    /\ CpuFormatted
    /\ quant.used = "500m"
    /\ quant.out.text = "500m"

\* |a - b| of two byte counts.
AbsDiff(a, b) == IF CmpLimbs(a, b) >= 0 THEN SubLimbs(a, b) ELSE SubLimbs(b, a)

\* bytes is the whole part of number * 1024^k, number the digits and scale
\* of a decimal numeral: bytes * 10^scale <= digits * 1024^k
\* < (bytes + 1) * 10^scale.
WholeBytes(bytes, number, k) ==
    LET exact == Shift(DigitsToLimbs(number.digits), k)
    IN  /\ CmpLimbs(MulSmall(bytes, Pow10(number.scale)), exact) <= 0
        /\ CmpLimbs(MulSmall(MulAdd(bytes, 1, 1), Pow10(number.scale)), exact) > 0

\* text is the byte count b in units of 1024^k to the nearest tenth, with
\* one decimal place and the suffix unit.
OneDecimalUnit(text, b, k, unit) ==
    /\ endswith(text, unit)
    /\ LET t == float(DropLast(text, 2))
       IN  /\ t.exc = None
           /\ t.scale = 1
           /\ BigToStr(DigitsToLimbs(SubSeq(t.digits, 1, Len(t.digits) - 1)))
                 \o "." \o SubSeq(t.digits, Len(t.digits), Len(t.digits))
                 = DropLast(text, 2)
           /\ CmpLimbs(MulSmall(AbsDiff(MulSmall(b, 10),
                                        Shift(DigitsToLimbs(t.digits), k)), 2),
                       Shift(<<1>>, k)) <= 0

\* The stated result of parse_memory_to_bytes on a quantity that parses.
MemoryParseAsStated ==
    (quant.fn = "parse" /\ quant.kind = "memory") =>
        /\ Falsy(quant.used) => quant.out.exc = None /\ quant.out.bytes = << >>
        /\ (~Falsy(quant.used) /\ quant.out.exc = None) =>
              LET s == strip(quant.used)
                  k == CASE endswith(s, "Ki") -> 1 [] endswith(s, "Mi") -> 2
                         [] endswith(s, "Gi") -> 3 [] endswith(s, "Ti") -> 4
                         [] OTHER -> 0
              IN  WholeBytes(quant.out.bytes,
                             float(IF k = 0 THEN s ELSE DropLast(s, 2)), k)
        /\ quant.used = "128Mi" => quant.out.bytes = <<0, 0, 128>>

\* The stated result of format_memory_usage on a quantity that parses.
MemoryFormatAsStated ==
    (quant.fn = "format" /\ quant.kind = "memory") =>
        /\ Falsy(quant.used) => quant.out.exc = None /\ quant.out.text = "N/A"
        /\ (~Falsy(quant.used) /\ quant.out.exc = None) =>
              LET b == parse_memory_to_bytes(quant.used).bytes
              IN  IF CmpLimbs(b, Shift(<<1>>, 3)) >= 0
                  THEN OneDecimalUnit(quant.out.text, b, 3, "Gi")
                  ELSE IF CmpLimbs(b, Shift(<<1>>, 2)) >= 0
                  THEN OneDecimalUnit(quant.out.text, b, 2, "Mi")
                  ELSE IF CmpLimbs(b, Shift(<<1>>, 1)) >= 0
                  THEN OneDecimalUnit(quant.out.text, b, 1, "Ki")
                  ELSE quant.out.text
                         = ToStr(IF b = << >> THEN 0 ELSE b[1]) \o "B"
        /\ quant.used = "128Mi" => quant.out.text = "128.0Mi"
        /\ quant.used = "1073741824" => quant.out.text = "1.0Gi"

\* C13: parse_memory_to_bytes multiplies the number by 1024, 1024^2, 1024^3
\* or 1024^4 for Ki, Mi, Gi, Ti and keeps the whole part, takes a bare number
\* as bytes and gives 0 for an absent or empty quantity; format_memory_usage
\* renders the byte count in the largest of Gi, Mi, Ki whose threshold it
\* reaches, with one decimal place, as an integer with "B" below 1024, and as
\* "N/A" when absent: "128Mi" is 134217728 bytes and "128.0Mi", "1073741824"
\* is "1.0Gi".
C13_MemoryParseAndFormat == MemoryParseAsStated /\ MemoryFormatAsStated

\* A byte count exactly at the Gi threshold has been formatted.
C13_Witness ==
    /\ quant.fn = "format"
    /\ quant.kind = "memory"
    /\ quant.used = "1073741824"
    /\ quant.out.text = "1.0Gi"

\* A formatted value has been parsed again, and the value formatted was a
\* present quantity that parses.
RoundTripped ==
    /\ quant.fn = "round_trip"
    /\ ~Falsy(quant.used)

\* C14: parsing and formatting round-trip to the same magnitude: for every
\* well-formed memory quantity s, format_memory_usage(s) parses and
\* parse_memory_to_bytes of it equals parse_memory_to_bytes(s), so that
\* formatting the formatted value returns it unchanged; and for CPU,
\* parse_cpu_to_millicores(format_cpu_usage(s)) equals
\* parse_cpu_to_millicores(s).
C14_ParseOfFormatIsParse ==
    RoundTripped =>
        /\ quant.back.exc = None
        /\ IF quant.kind = "memory"
           THEN /\ quant.back.bytes = parse_memory_to_bytes(quant.used).bytes
                /\ format_memory_usage(quant.out.text)
                     = [exc |-> None, text |-> quant.out.text]
           ELSE quant.back.millicores
                  = parse_cpu_to_millicores(quant.used).millicores

\* The detail view has been asked for a pod of the cluster and has fetched
\* its metrics.
DetailsWithMetrics ==
    /\ last.source = "live"
    /\ last.has_metrics

\* Nothing but an absent usage value can fail the view: the baselines parse
\* and the usage values that are present render.
OnlyAbsenceAtStake ==
    LET cpu_base    == Or(last.resources.cpu_limit, last.resources.cpu_request)
        memory_base == Or(last.resources.memory_limit,
                          last.resources.memory_request)
    IN  /\ parse_cpu_to_millicores(cpu_base).exc = None
        /\ parse_memory_to_bytes(memory_base).exc = None
        /\ last.metrics.cpu # None =>
              /\ format_cpu_usage(last.metrics.cpu).exc = None
              /\ format_cpu_with_percentage(
                     format_cpu_usage(last.metrics.cpu).text, cpu_base).exc = None
        /\ last.metrics.memory # None =>
              /\ format_memory_usage(last.metrics.memory).exc = None
              /\ format_memory_with_percentage(
                     format_memory_usage(last.metrics.memory).text,
                     memory_base).exc = None

\* C15: in the pod detail view a container whose usage record lacks the CPU
\* or the memory value, or whose pod has no metrics at all, is shown "N/A"
\* for that quantity, with or without a limit or request for it, and the
\* view answers 200: a usage field that is absent never makes it answer an
\* error.
C15_AbsentUsageShowsNA ==
    (DetailsWithMetrics /\ OnlyAbsenceAtStake) =>
        /\ last.kind = "pod_details.html"
        /\ last.code = 200
        /\ (last.metrics.raises \/ last.metrics.cpu = None)
              => last.cpu_usage = "N/A"
        /\ (last.metrics.raises \/ last.metrics.memory = None)
              => last.memory_usage = "N/A"

\* The instant of a datetime, in UTC seconds: its wall clock less its
\* offset (a naive one is taken as UTC, which is what utcnow() gives).
InstantOf(t) == t.secs - t.utcoffset

\* The whole seconds from the instant of t to now, t at or before now.
ElapsedWhole(t, now) ==
    now.secs - InstantOf(t) - (IF now.us < t.us THEN 1 ELSE 0)

AtOrBefore(t, now) ==
    \/ InstantOf(t) < now.secs
    \/ InstantOf(t) = now.secs /\ t.us <= now.us

\* The label of e elapsed seconds: the most significant unit only, its count
\* truncated.
LabelOf(e) ==
    IF e >= 86400 THEN ToStr(e \div 86400) \o "d"
    ELSE IF e >= 3600 THEN ToStr(e \div 3600) \o "h"
    ELSE IF e >= 60 THEN ToStr(e \div 60) \o "m"
    ELSE ToStr(e) \o "s"

\* C16: for every timestamp at or before now (given in UTC), format_age
\* returns the most significant unit only, truncated to an integer: "{d}d"
\* from one day, else "{h}h", else "{m}m", else "{s}s"; "Unknown" for an
\* absent timestamp; 90 minutes ago is "1h", 45 seconds ago is "45s".
C16_MostSignificantUnit ==
    age.fn = "format_age" =>
        LET t == age.created_time
        IN  /\ ~t.present => age.label = "Unknown"
            /\ (t.present /\ t.utcoffset = 0 /\ AtOrBefore(t, age.now)) =>
                  /\ age.label = LabelOf(ElapsedWhole(t, age.now))
                  /\ ElapsedWhole(t, age.now) = 5400 => age.label = "1h"
                  /\ ElapsedWhole(t, age.now) = 45 => age.label = "45s"
                  /\ ElapsedWhole(t, age.now) = 86399 => age.label = "23h"
                  /\ ElapsedWhole(t, age.now) = 180000 => age.label = "2d"

\* A timestamp 90 minutes and a fraction of a second old has been labelled.
C16_Witness ==
    /\ age.fn = "format_age"
    /\ age.created_time.present
    /\ age.created_time.utcoffset = 0
    /\ ElapsedWhole(age.created_time, age.now) = 5400
    /\ age.created_time.us # age.now.us
    /\ age.label = "1h"

\* C17: format_age takes its input as an absolute instant and compares it
\* with now in UTC: one instant written with different offsets (12:00+02:00
\* and 10:00+00:00) gets one label.
C17_LabelDependsOnInstantOnly ==
    (age.fn = "format_age" /\ age.created_time.present) =>
        age.label = format_age(Aware(InstantOf(age.created_time),
                                     age.created_time.us, 0), age.now)

\* A step that answers a request for cluster data: the response says from
\* which source it was served.
DataServed == last' # last /\ last'.source \in {"mock", "live"}

\* C18: the substitute-source flag and the active context agree: once an
\* active context name is recorded from a successful resolution or switch,
\* data requests are served from the live cluster; in particular when
\* startup fell back to substitute mode (it was not asked for by
\* USE_MOCK_DATA) and a later use_context succeeded.
C18_ActiveContextMeansLive ==
    [][(DataServed /\ app.K8S_CONTEXT # None /\ ~env.USE_MOCK_DATA)
          => last'.source = "live"]_vars

\* C19: in substitute mode no data handler (namespaces, pod list, pod
\* details, logs, metrics, delete, restart) calls the cluster client, and
\* delete and restart delete nothing on a cluster: no response in
\* substitute mode comes from the cluster, reports a deleted pod or carries
\* fetched metrics.
C19_SubstituteModeNeverCallsCluster ==
    app.USE_MOCK_DATA =>
        /\ last.source # "live"
        /\ last.deleted = None
        /\ ~last.has_metrics

\* A deletion has been answered in substitute mode.
C19_Witness ==
    /\ app.USE_MOCK_DATA
    /\ last.kind = "redirect:index"
    /\ last.flash = "Pod web-0 deleted successfully (mock mode)"
    /\ last.deleted = None

\* The step of client c in which its index request renders the page.
IndexRendered(c) ==
    /\ req[c].op = "index" /\ req[c].pc = "388"
    /\ req'[c].pc = "idle"

\* C20: the context a client's session has selected names the context the
\* client is served against: whatever use_context requests of other clients
\* have run meanwhile, a client whose session holds selected_context = N and
\* who passes the context check of the index page (on a workstation, with
\* live data) gets the page of the active context N, and the cluster client
\* is configured for N.
C20_SessionContextIsServedContext ==
    [][\A c \in Clients :
         (/\ IndexRendered(c)
          /\ ~env.marker
          /\ ~app.RUNNING_IN_CLUSTER
          /\ ~app.USE_MOCK_DATA
          /\ session[c] # None)
            => /\ last'.k8s_context = session[c]
               /\ k8s_client = session[c]]_vars

\* The policy offers the action labelled label for a pod of this namespace
\* and status.
Offered(label, namespace, status) ==
    HasAction(get_available_actions([name |-> "web-0", namespace |-> namespace,
                                     status |-> status]), label)

\* C21: the mutating routes honour the eligibility policy: in live mode the
\* delete route deletes a pod on the cluster only if the policy offers
\* delete for the pod's namespace (never in a kube- namespace outside the
\* allow-list), and the restart route deletes it only if the pod's status
\* is Running, Starting or Pending.
C21_MutationsHonourPolicy ==
    last.deleted # None =>
        IF last.kind = "redirect:index"
        THEN /\ Offered("DELETE", last.deleted_from, last.deleted_status)
             /\ (startswith(last.deleted_from, "kube-")
                    => last.deleted_from \in DeleteAllowList)
        ELSE /\ Offered("RESTART", last.deleted_from, last.deleted_status)
             /\ last.deleted_status \in RestartStatuses

\* The view function that performs what an action or link stands for.
Performs(rel) ==
    IF rel \in {"DELETE", "delete"} THEN "delete_pod" ELSE "restart_pod"

\* C22: every action descriptor of get_available_actions and every delete
\* or restart entry of a listed pod's _links names a path and a method that
\* a registered route accepts: following it reaches the handler that
\* performs it.
C22_OfferedActionsReachTheirHandler ==
    pol.stage = "followed" =>
        /\ pol.reached.error = 0
        /\ pol.reached.endpoint = Performs(pol.rel)

====
